---- MODULE Spec2Model ----
(***************************************************************************)
(* Model of the session pattern-detection pipeline of ai-issue-spotter:    *)
(*   loadRRwebData -> extractKeyMoments -> syncWithPostHogEvents           *)
(* (src/src/rrweb.ts).  The raw recording file and the PostHog event list  *)
(* are the inputs; one action per program segment.                         *)
(*                                                                         *)
(* Representation.                                                         *)
(*  - An optional JavaScript value (undefined / missing property) is the   *)
(*    empty set None, a present value v is Some(v) = {v}.                  *)
(*  - Strings that the code only compares are TLA+ strings; strings the    *)
(*    code searches with String.includes are sequences of characters.      *)
(*  - A JavaScript array of event objects taken from session.events is a   *)
(*    sequence of indices into session.events (the object references).     *)
(*  - relevanceScore, a two-decimal number, is an integer count of         *)
(*    hundredths.                                                          *)
(*  - An ISO timestamp string is a record of its fields on 1970-01-01 UTC, *)
(*    so that epoch milliseconds fit the checker's integers.               *)
(*  - Pass-through properties that no modelled code reads (element id,     *)
(*    textContent, width, height, data.y of non-mouse records, ...) are    *)
(*    left out of the records.                                             *)
(***************************************************************************)
EXTENDS Integers, Sequences, FiniteSets, TLC

\* ------------------------------------------------------------------------
\* Optional values and JavaScript coercions
\* ------------------------------------------------------------------------
None == {}

Some(v) == {v}

Val(o) == CHOOSE v \in o : TRUE

\* (n || 0) for an optional number
OrZero(o) == IF o = None THEN 0 ELSE Val(o)

\* truthiness of an optional number
TruthyNum(o) == o # None /\ Val(o) # 0

\* truthiness of an optional string held as a TLA+ string
TruthyStr(o) == o # None /\ Val(o) # ""

\* truthiness of an optional string held as a sequence of characters
TruthyChars(o) == o # None /\ Val(o) # <<>>

Abs(n) == IF n < 0 THEN -n ELSE n

Max(a, b) == IF a > b THEN a ELSE b

Min(a, b) == IF a < b THEN a ELSE b

\* String.prototype.includes on sequences of characters
Includes(str, sub) ==
  \E k \in 0..(Len(str) - Len(sub)) : SubSeq(str, k + 1, k + Len(sub)) = sub

SeqsUpTo(S, n) == UNION {[1..k -> S] : k \in 0..n}

Range(f) == {f[k] : k \in DOMAIN f}

\* ------------------------------------------------------------------------
\* Program constants
\* ------------------------------------------------------------------------
NEARBY_EVENT_WINDOW_MS == 30000

MAX_RAGE_CLICK_INTERVAL == 1000

NAVIGATION_LOOP_THRESHOLD == 3

NAVIGATION_LOOP_TIME_WINDOW == 120000

\* enum RRwebEventType
RRwebEventType_IncrementalSnapshot == 3

RRwebEventType_Meta == 4

RRwebEventType_Custom == 5

\* enum IncrementalSnapshotType
IncrementalSnapshotType_MouseMove == 1

IncrementalSnapshotType_MouseInteraction == 2

IncrementalSnapshotType_Scroll == 3

IncrementalSnapshotType_Input == 5

\* enum MouseInteractionType
MouseInteractionType_MouseDown == 0

MouseInteractionType_MouseUp == 1

MouseInteractionType_Click == 2

interactiveElements == {"BUTTON", "A", "INPUT", "SELECT", "TEXTAREA", "LABEL"}

eventTypeMap(t) ==
  CASE t = 0 -> "DomContentLoaded"
    [] t = 1 -> "Load"
    [] t = 2 -> "FullSnapshot"
    [] t = 3 -> "IncrementalSnapshot"
    [] t = 4 -> "Meta"
    [] t = 5 -> "Custom"
    [] OTHER -> "Unknown"

incrementalTypeMap(src) ==
  IF src = None THEN "Unknown"
  ELSE CASE Val(src) = 0 -> "Mutation"
         [] Val(src) = 1 -> "MouseMove"
         [] Val(src) = 2 -> "MouseInteraction"
         [] Val(src) = 3 -> "Scroll"
         [] Val(src) = 4 -> "ViewportResize"
         [] Val(src) = 5 -> "Input"
         [] Val(src) = 6 -> "TouchMove"
         [] Val(src) = 7 -> "MediaInteraction"
         [] Val(src) = 8 -> "StyleSheetRule"
         [] Val(src) = 9 -> "CanvasMutation"
         [] Val(src) = 10 -> "Font"
         [] Val(src) = 11 -> "Selection"
         [] OTHER -> "Unknown"

mouseInteractionMap(t) ==
  IF t = None THEN "Unknown"
  ELSE CASE Val(t) = 0 -> "MouseDown"
         [] Val(t) = 1 -> "MouseUp"
         [] Val(t) = 2 -> "Click"
         [] Val(t) = 3 -> "ContextMenu"
         [] Val(t) = 4 -> "DblClick"
         [] Val(t) = 5 -> "Focus"
         [] Val(t) = 6 -> "Blur"
         [] Val(t) = 7 -> "TouchStart"
         [] Val(t) = 8 -> "TouchMove_Departed"
         [] Val(t) = 9 -> "TouchEnd"
         [] OTHER -> "Unknown"

\* ------------------------------------------------------------------------
\* Record shapes
\* ------------------------------------------------------------------------
\* element.attributes / target.attributes
NoAttrs == [role |-> None, onclick |-> None, type |-> None, form |-> None]

\* RRwebEvent.data with every property missing
NoData ==
  [source |-> None, type |-> None, target |-> None, x |-> None, y |-> None,
   text |-> None, value |-> None, href |-> None, width |-> None,
   height |-> None, userAgent |-> None, positions |-> None, error |-> None]

\* ProcessedRRwebEvent.details with every property missing
NoDetails ==
  [incrementalType |-> None, interactionType |-> None, inputType |-> None,
   value |-> None, href |-> None, width |-> None, height |-> None,
   x |-> None, positions |-> None, error |-> None]

\* { ...event.data }: the properties of data that the detectors look at
SpreadData(data) ==
  IF data = None THEN NoDetails
  ELSE [NoDetails EXCEPT !.value = Val(data).value,
                         !.href = Val(data).href,
                         !.width = Val(data).width,
                         !.height = Val(data).height,
                         !.x = Val(data).x,
                         !.positions = Val(data).positions,
                         !.error = Val(data).error]

\* ------------------------------------------------------------------------
\* processRRwebEvent
\* ------------------------------------------------------------------------
\* event.data.source / event.data.href is read without a guard: a TypeError
\* when an IncrementalSnapshot or Meta record has no data
ProcessThrows(event) ==
  /\ event.type \in {RRwebEventType_IncrementalSnapshot, RRwebEventType_Meta}
  /\ event.data = None

\* element built from event.data.target of a MouseInteraction record
MouseElement(data) ==
  IF data.target = None THEN None
  ELSE Some([tag |-> Val(data.target).tagName,
             className |-> Val(data.target).className,
             attributes |-> Val(data.target).attributes,
             position |-> Some([x |-> data.x, y |-> data.y])])

\* element built from event.data.target of an Input record (no position)
InputElement(data) ==
  IF data.target = None THEN None
  ELSE Some([tag |-> Val(data.target).tagName,
             className |-> Val(data.target).className,
             attributes |-> Val(data.target).attributes,
             position |-> None])

IncrementalDetails(data) ==
  LET base == [NoDetails EXCEPT
                 !.incrementalType = Some(incrementalTypeMap(data.source))]
  IN IF data.source = Some(IncrementalSnapshotType_MouseInteraction)
       THEN [base EXCEPT !.interactionType = Some(mouseInteractionMap(data.type))]
     ELSE IF data.source = Some(IncrementalSnapshotType_Input)
       THEN [base EXCEPT !.inputType = Some("Input"),
                         !.value = IF TruthyStr(data.text) THEN data.text
                                   ELSE data.value]
     ELSE base

IncrementalElement(data) ==
  IF data.source = Some(IncrementalSnapshotType_MouseInteraction)
    THEN MouseElement(data)
  ELSE IF data.source = Some(IncrementalSnapshotType_Input)
    THEN InputElement(data)
  ELSE None

\* defined where ~ProcessThrows(event)
processRRwebEvent(event) ==
  [timestamp |-> event.timestamp,
   type |-> eventTypeMap(event.type),
   details |-> Some(IF event.type = RRwebEventType_IncrementalSnapshot
                      THEN IncrementalDetails(Val(event.data))
                    ELSE SpreadData(event.data)),
   url |-> IF event.type = RRwebEventType_Meta THEN Val(event.data).href
           ELSE None,
   element |-> IF event.type = RRwebEventType_IncrementalSnapshot
                 THEN IncrementalElement(Val(event.data))
               ELSE None]

\* ------------------------------------------------------------------------
\* loadRRwebData
\* ------------------------------------------------------------------------
RECURSIVE ConcatRecords(_)
\* allEvents = allEvents.concat(record.events) over session.records
ConcatRecords(records) ==
  IF records = <<>> THEN <<>>
  ELSE LET r == records[Len(records)]
       IN ConcatRecords(SubSeq(records, 1, Len(records) - 1))
            \o (IF r.events = None THEN <<>> ELSE Val(r.events))

AllEvents(session) ==
  IF session.records = None THEN <<>> ELSE ConcatRecords(Val(session.records))

\* a plausible slip: an unstable sort, e placed before the elements of its
\* own timestamp
InsertBeforeEqual(sorted, e) ==
  LET k == Cardinality({j \in 1..Len(sorted) : sorted[j].timestamp < e.timestamp})
  IN SubSeq(sorted, 1, k) \o <<e>> \o SubSeq(sorted, k + 1, Len(sorted))

\* place e behind every element whose timestamp is <= e.timestamp
InsertByTimestamp(sorted, e) ==
  LET k == Cardinality({j \in 1..Len(sorted) : sorted[j].timestamp <= e.timestamp})
  IN SubSeq(sorted, 1, k) \o <<e>> \o SubSeq(sorted, k + 1, Len(sorted))

RECURSIVE SortByTimestamp(_)
\* allEvents.sort((a, b) => a.timestamp - b.timestamp): Array.prototype.sort
\* is stable
SortByTimestamp(events) ==
  IF events = <<>> THEN <<>>
  ELSE InsertByTimestamp(SortByTimestamp(SubSeq(events, 1, Len(events) - 1)),
                         events[Len(events)])

\* a plausible slip: the value of the first Meta record that carries one
\* (`// Extract metadata from initial events`)
FirstMeta(events, f) ==
  LET carriers == {k \in 1..Len(events) :
                     /\ events[k].type = RRwebEventType_Meta
                     /\ events[k].data # None
                     /\ TruthyStr(Val(events[k].data)[f])}
  IN IF carriers = {} THEN ""
     ELSE Val(Val(events[CHOOSE k \in carriers : \A h \in carriers : k <= h].data)[f])

RECURSIVE LastMeta(_, _)
\* the value of property f of the last Meta record that carries a truthy one
LastMeta(events, f) ==
  IF events = <<>> THEN ""
  ELSE LET e == events[Len(events)]
       IN IF /\ e.type = RRwebEventType_Meta
             /\ e.data # None
             /\ TruthyStr(Val(e.data)[f])
            THEN Val(Val(e.data)[f])
          ELSE LastMeta(SubSeq(events, 1, Len(events) - 1), f)

\* the id given to a session that carries none:
\* `session_${Date.now()}_${Math.random().toString(36).substring(2, 9)}`
GeneratedIds == {"session_1_aaaaaaa", "session_2_bbbbbbb"}

\* a plausible slip: the start and end times taken from the events as they
\* come, without the sort
ProcessSessionUnsorted(session, gen) ==
  LET allEvents == AllEvents(session)
      startTime == IF Len(allEvents) > 0 THEN allEvents[1].timestamp ELSE 0
      endTime == IF Len(allEvents) > 0 THEN allEvents[Len(allEvents)].timestamp
                 ELSE 0
  IN [sessionId |-> IF TruthyStr(session.sessionId) THEN Val(session.sessionId)
                    ELSE gen,
      events |-> [k \in 1..Len(allEvents) |-> processRRwebEvent(allEvents[k])],
      metadata |-> [startTime |-> startTime,
                    endTime |-> endTime,
                    duration |-> endTime - startTime,
                    url |-> LastMeta(allEvents, "href"),
                    userAgent |-> LastMeta(allEvents, "userAgent")]]

\* one session of data.sessions.map(...); gen is the generated id
ProcessSession(session, gen) ==
  LET allEvents == SortByTimestamp(AllEvents(session))
      startTime == IF Len(allEvents) > 0 THEN allEvents[1].timestamp ELSE 0
      endTime == IF Len(allEvents) > 0 THEN allEvents[Len(allEvents)].timestamp
                 ELSE 0
  IN [sessionId |-> IF TruthyStr(session.sessionId) THEN Val(session.sessionId)
                    ELSE gen,
      events |-> [k \in 1..Len(allEvents) |-> processRRwebEvent(allEvents[k])],
      metadata |-> [startTime |-> startTime,
                    endTime |-> endTime,
                    duration |-> endTime - startTime,
                    url |-> LastMeta(allEvents, "href"),
                    userAgent |-> LastMeta(allEvents, "userAgent")]]

SessionThrows(session) ==
  \E k \in 1..Len(AllEvents(session)) : ProcessThrows(AllEvents(session)[k])

\* the file is missing, is no JSON, or has no sessions array
InvalidFile(f) == ~f.exists \/ ~f.parses \/ f.sessions = None

\* the value loadRRwebData returns; gens[k] is the id generated for session k
loadRRwebData(f, gens) ==
  IF InvalidFile(f) THEN <<>>
  ELSE IF \E k \in 1..Len(Val(f.sessions)) : SessionThrows(Val(f.sessions)[k])
    THEN <<>>
  ELSE [k \in 1..Len(Val(f.sessions)) |->
          ProcessSession(Val(f.sessions)[k], gens[k])]

\* ------------------------------------------------------------------------
\* getContextAroundEvent
\* ------------------------------------------------------------------------
\* event.details of a processed event
D(e) == Val(e.details)

\* simplifiedDetails (`{ ...details }` of a missing details map is empty):
\* positions cut to the first 3
SimplifiedDetails(details) ==
  IF details.positions # None /\ Len(Val(details.positions)) > 3
    THEN [details EXCEPT !.positions = Some(SubSeq(Val(details.positions), 1, 3))]
  ELSE details

\* a plausible slip: the window closed one event early
\* (`events.slice(startIdx, endIdx)`)
getContextAroundEventShortEnd(events, currentIndex, windowSize) ==
  IF Len(events) = 0 THEN <<>>
  ELSE IF currentIndex < 1 \/ currentIndex > Len(events) THEN <<>>
  ELSE LET startIdx == Max(1, currentIndex - windowSize)
           endIdx == Min(Len(events), currentIndex + windowSize) - 1
       IN [k \in 1..(endIdx - startIdx + 1) |->
             LET e == events[startIdx + k - 1]
             IN [type |-> e.type,
                 timestamp |-> e.timestamp,
                 details |-> SimplifiedDetails(IF e.details = None
                                                 THEN NoDetails
                                                 ELSE D(e)),
                 element |-> e.element]]

\* currentIndex is an index of the model (1-based); the source's is 0-based
getContextAroundEvent(events, currentIndex, windowSize) ==
  IF Len(events) = 0 THEN <<>>
  ELSE IF currentIndex < 1 \/ currentIndex > Len(events) THEN <<>>
  ELSE LET startIdx == Max(1, currentIndex - windowSize)
           endIdx == Min(Len(events), currentIndex + windowSize)
       IN [k \in 1..(endIdx - startIdx + 1) |->
             LET e == events[startIdx + k - 1]
             IN [type |-> e.type,
                 timestamp |-> e.timestamp,
                 details |-> SimplifiedDetails(IF e.details = None
                                                 THEN NoDetails
                                                 ELSE D(e)),
                 element |-> e.element]]

\* ------------------------------------------------------------------------
\* extractKeyMoments: the tracking variables and the detectors
\* ------------------------------------------------------------------------
\* the tracking variables as they are declared at the start of a session
InitTrack(session) ==
  [clickEvents |-> <<>>,
   lastClickTime |-> 0,
   formInteractions |-> <<>>,
   currentFormId |-> None,
   navigationEvents |-> <<>>,
   currentUrl |-> session.metadata.url,
   lastInputTime |-> 0,
   lastInputValue |-> None,
   scrollEvents |-> <<>>,
   lastScrollTime |-> 0,
   errorEvents |-> <<>>,
   mouseMovements |-> <<>>,
   lastMouseMoveTime |-> 0,
   viewportSize |-> [width |-> 0, height |-> 0]]

\* keyMoments.push(m); og is the provenance kept beside each moment:
\* the session index, the index of the triggering event (0 for a session-level
\* moment) and the indices of the events the moment counted
Push(c, m, s, i, counted) ==
  [c EXCEPT !.km = Append(@, m),
            !.og = Append(@, [s |-> s, i |-> i, counted |-> counted])]

\* first loop, `if (event.type === 'Meta')`
MetaViewport(c, event) ==
  IF /\ event.type = "Meta"
     /\ TruthyNum(D(event).width)
     /\ TruthyNum(D(event).height)
    THEN [c EXCEPT !.t.viewportSize = [width |-> Val(D(event).width),
                                       height |-> Val(D(event).height)]]
  ELSE c

\* first loop, `if (event.type === 'Navigate' && event.details.href)`
TrackNavigation(c, events, k, s, sessionId) ==
  LET event == events[k]
  IN IF event.type = "Navigate" /\ TruthyStr(D(event).href)
       THEN LET currentUrl == Val(D(event).href)
                navigationEvents == Append(c.t.navigationEvents, k)
                recentNavigations ==
                  SelectSeq(navigationEvents,
                            LAMBDA j :
                              /\ events[j].timestamp >
                                   event.timestamp - NAVIGATION_LOOP_TIME_WINDOW
                              /\ events[j].url = Some(currentUrl))
                c1 == [c EXCEPT !.t.currentUrl = currentUrl,
                                !.t.navigationEvents = navigationEvents]
            IN IF Len(recentNavigations) >= NAVIGATION_LOOP_THRESHOLD
                 THEN Push(c1,
                           [type |-> "NavigationLoop",
                            timestamp |-> event.timestamp,
                            url |-> currentUrl,
                            frequency |-> Len(recentNavigations),
                            timeWindow |-> NAVIGATION_LOOP_TIME_WINDOW,
                            sessionId |-> sessionId],
                           s, k, recentNavigations)
               ELSE c1
     ELSE c

\* first loop, `// Capture error events`
CaptureError(c, events, k, s, sessionId) ==
  LET event == events[k]
  IN IF /\ event.type = "IncrementalSnapshot"
        /\ D(event).incrementalType = Some("Canvas")
        /\ TruthyStr(D(event).error)
       THEN Push([c EXCEPT !.t.errorEvents = Append(@, k)],
                 [type |-> "JSError",
                  timestamp |-> event.timestamp,
                  error |-> Val(D(event).error),
                  url |-> c.t.currentUrl,
                  sessionId |-> sessionId],
                 s, k, <<>>)
     ELSE c

\* the first loop reads event.details.<property> of every Meta, Navigate and
\* IncrementalSnapshot event without testing event.details
ReadsDetails(event) == event.type \in {"Meta", "Navigate", "IncrementalSnapshot"}

\* the index of the first event at which the first loop throws a TypeError
\* (details is undefined where a property of it is read), 0 when there is none
FirstLoopThrowsAt(events) ==
  LET bad == {j \in 1..Len(events) :
                events[j].details = None /\ ReadsDetails(events[j])}
  IN IF bad = {} THEN 0 ELSE CHOOSE j \in bad : \A h \in bad : j <= h

RECURSIVE FirstLoop(_, _, _, _, _)
\* `// First pass to extract metadata`: events 1..k
FirstLoop(c, events, k, s, sessionId) ==
  IF k = 0 THEN c
  ELSE CaptureError(
         TrackNavigation(
           MetaViewport(FirstLoop(c, events, k - 1, s, sessionId), events[k]),
           events, k, s, sessionId),
         events, k, s, sessionId)

\* the guard of the rage click / dead click block
IsClickOrMouseDown(event) ==
  /\ event.type = "IncrementalSnapshot"
  /\ D(event).incrementalType = Some("MouseInteraction")
  /\ D(event).interactionType \in {Some("Click"), Some("MouseDown")}

\* (element.position?.x || 0), (element.position?.y || 0)
PosX(el) == IF el.position = None THEN 0 ELSE OrZero(Val(el.position).x)

PosY(el) == IF el.position = None THEN 0 ELSE OrZero(Val(el.position).y)

\* a plausible slip: a circular radius of 20 px instead of the per-axis test
SameAreaEuclidean(click, event) ==
  IF click.element = None \/ event.element = None THEN FALSE
  ELSE LET xDistance == Abs(PosX(Val(click.element)) - PosX(Val(event.element)))
           yDistance == Abs(PosY(Val(click.element)) - PosY(Val(event.element)))
       IN xDistance * xDistance + yDistance * yDistance < 20 * 20

\* the filter of sameAreaClicks
SameArea(click, event) ==
  IF click.element = None \/ event.element = None THEN FALSE
  ELSE LET xDistance == Abs(PosX(Val(click.element)) - PosX(Val(event.element)))
           yDistance == Abs(PosY(Val(click.element)) - PosY(Val(event.element)))
       IN xDistance < 20 /\ yDistance < 20

\* a plausible slip: the interval test made inclusive
WithinRageIntervalInclusive(event, lastClickTime) ==
  event.timestamp - lastClickTime <= MAX_RAGE_CLICK_INTERVAL

\* `event.timestamp - lastClickTime < MAX_RAGE_CLICK_INTERVAL`
WithinRageInterval(event, lastClickTime) ==
  event.timestamp - lastClickTime < MAX_RAGE_CLICK_INTERVAL

\* a plausible slip: the cluster is kept after a RageClick was pushed
NextClusterKept(within, emits, clickEvents, i) ==
  IF ~within THEN <<i>> ELSE clickEvents

\* clickEvents after the event at index i: `clickEvents = []` after a push,
\* `clickEvents = [event]` in the else branch (clickEvents holds i already)
NextCluster(within, emits, clickEvents, i) ==
  IF ~within THEN <<i>>
  ELSE IF emits THEN <<>>
  ELSE clickEvents

\* `// Detect rage clicks`, up to `lastClickTime = event.timestamp`
RageClick(c, events, i, s, sessionId) ==
  LET event == events[i]
      clickEvents == Append(c.t.clickEvents, i)
      sameAreaClicks ==
        SelectSeq(clickEvents, LAMBDA j : SameArea(events[j], event))
      emits == /\ WithinRageInterval(event, c.t.lastClickTime)
               /\ Len(clickEvents) >= 3
               /\ Len(sameAreaClicks) >= 3
      c1 == IF emits
              THEN Push(c,
                        [type |-> "RageClick",
                         timestamp |-> event.timestamp,
                         clickCount |-> Len(sameAreaClicks),
                         element |-> event.element,
                         url |-> c.t.currentUrl,
                         context |-> getContextAroundEvent(events, i, 5),
                         sessionId |-> sessionId],
                        s, i, sameAreaClicks)
            ELSE c
  IN [c1 EXCEPT !.t.clickEvents =
                  NextCluster(WithinRageInterval(event, c.t.lastClickTime),
                              emits, clickEvents, i),
                !.t.lastClickTime = event.timestamp]

\* a plausible slip: any class name at all makes the element button-like
IsDeadClickWithoutClass(element) ==
  /\ element # None
  /\ Val(element).tag \notin {Some(tag) : tag \in interactiveElements}
  /\ ~TruthyChars(Val(element).className)
  /\ ~(/\ Val(element).attributes # None
       /\ Val(Val(element).attributes).role = Some("button"))
  /\ ~(/\ Val(element).attributes # None
       /\ TruthyStr(Val(Val(element).attributes).onclick))

\* a plausible slip: the inline handler is not looked at
IsDeadClickIgnoringHandler(element) ==
  /\ element # None
  /\ Val(element).tag \notin {Some(tag) : tag \in interactiveElements}
  /\ ~(/\ TruthyChars(Val(element).className)
       /\ Includes(Val(Val(element).className), <<"b", "t", "n">>))
  /\ ~(/\ TruthyChars(Val(element).className)
       /\ Includes(Val(Val(element).className), <<"b", "u", "t", "t", "o", "n">>))
  /\ ~(/\ Val(element).attributes # None
       /\ Val(Val(element).attributes).role = Some("button"))

\* the condition of `// Detect dead clicks`
IsDeadClick(element) ==
  /\ element # None
  /\ Val(element).tag \notin {Some(tag) : tag \in interactiveElements}
  /\ ~(/\ TruthyChars(Val(element).className)
       /\ Includes(Val(Val(element).className), <<"b", "t", "n">>))
  /\ ~(/\ TruthyChars(Val(element).className)
       /\ Includes(Val(Val(element).className), <<"b", "u", "t", "t", "o", "n">>))
  /\ ~(/\ Val(element).attributes # None
       /\ Val(Val(element).attributes).role = Some("button"))
  /\ ~(/\ Val(element).attributes # None
       /\ TruthyStr(Val(Val(element).attributes).onclick))

\* `// Detect dead clicks`
DeadClick(c, events, i, s, sessionId) ==
  LET event == events[i]
  IN IF IsDeadClick(event.element)
       THEN Push(c,
                 [type |-> "DeadClick",
                  timestamp |-> event.timestamp,
                  element |-> event.element,
                  url |-> c.t.currentUrl,
                  context |-> getContextAroundEvent(events, i, 3),
                  sessionId |-> sessionId],
                 s, i, <<>>)
     ELSE c

\* the click block of the second loop
ClickBlock(c, events, i, s, sessionId) ==
  IF IsClickOrMouseDown(events[i])
    THEN DeadClick(RageClick(c, events, i, s, sessionId), events, i, s, sessionId)
  ELSE c

\* indices lo..hi as a sequence (events.slice)
Indices(lo, hi) == [k \in 1..(hi - lo + 1) |-> lo + k - 1]

\* `// Detect form abandonment`: an Input event
InputBlock(c, events, i) ==
  LET event == events[i]
  IN IF /\ event.type = "IncrementalSnapshot"
        /\ D(event).incrementalType = Some("Input")
       THEN LET formInteractions == Append(c.t.formInteractions, i)
                hasForm == /\ event.element # None
                           /\ Val(event.element).attributes # None
                           /\ TruthyStr(Val(Val(event.element).attributes).form)
            IN [c EXCEPT !.t.formInteractions = formInteractions,
                         !.t.lastInputTime = event.timestamp,
                         !.t.lastInputValue = D(event).value,
                         !.t.currentFormId =
                           IF hasForm THEN Val(Val(event.element).attributes).form
                           ELSE @]
     ELSE c

\* the predicate of submissionFound
IsFormSubmitClick(e, currentFormId) ==
  /\ e.type = "IncrementalSnapshot"
  /\ D(e).incrementalType = Some("MouseInteraction")
  /\ D(e).interactionType = Some("Click")
  /\ e.element # None
  /\ \/ /\ Val(e.element).tag = Some("BUTTON")
        /\ Val(e.element).attributes # None
        /\ Val(Val(e.element).attributes).type = Some("submit")
     \/ /\ Val(e.element).attributes # None
        /\ Val(Val(e.element).attributes).form = currentFormId

\* a plausible slip: the form tracking is not reset at the Navigate event
NavigateFormBlockWithoutReset(c, events, i, s, sessionId) ==
  LET event == events[i]
  IN IF /\ event.type = "Navigate"
        /\ TruthyStr(c.t.currentFormId)
        /\ Len(c.t.formInteractions) > 0
        /\ ~\E j \in Max(1, i - 10)..(i - 1) :
              IsFormSubmitClick(events[j], c.t.currentFormId)
        /\ Len(c.t.formInteractions) >= 2
       THEN Push(c,
                 [type |-> "FormAbandonment",
                  timestamp |-> event.timestamp,
                  formId |-> Val(c.t.currentFormId),
                  interactionCount |-> Len(c.t.formInteractions),
                  lastValue |-> c.t.lastInputValue,
                  url |-> c.t.currentUrl,
                  context |-> getContextAroundEvent(events, i, 10),
                  sessionId |-> sessionId],
                 s, i, c.t.formInteractions)
     ELSE c

\* `// Check for form abandonment when navigating away`
NavigateFormBlock(c, events, i, s, sessionId) ==
  LET event == events[i]
  IN IF /\ event.type = "Navigate"
        /\ TruthyStr(c.t.currentFormId)
        /\ Len(c.t.formInteractions) > 0
       THEN LET submissionFound ==
                  \E j \in Max(1, i - 10)..(i - 1) :
                    IsFormSubmitClick(events[j], c.t.currentFormId)
                c1 == IF ~submissionFound /\ Len(c.t.formInteractions) >= 2
                        THEN Push(c,
                                  [type |-> "FormAbandonment",
                                   timestamp |-> event.timestamp,
                                   formId |-> Val(c.t.currentFormId),
                                   interactionCount |-> Len(c.t.formInteractions),
                                   lastValue |-> c.t.lastInputValue,
                                   url |-> c.t.currentUrl,
                                   context |-> getContextAroundEvent(events, i, 10),
                                   sessionId |-> sessionId],
                                  s, i, c.t.formInteractions)
                      ELSE c
            IN [c1 EXCEPT !.t.formInteractions = <<>>,
                          !.t.currentFormId = None]
     ELSE c

\* scrollEvents.slice(-2)
LastTwo(q) == SubSeq(q, Max(1, Len(q) - 1), Len(q))

\* a plausible slip: the queue is not cut back after a RapidScrolling moment
ScrollBlockKeepingQueue(c, events, i, s, sessionId) ==
  LET event == events[i]
  IN IF /\ event.type = "IncrementalSnapshot"
        /\ D(event).incrementalType = Some("Scroll")
       THEN LET scrollEvents == Append(c.t.scrollEvents, i)
                recentScrolls ==
                  SelectSeq(scrollEvents,
                            LAMBDA j : events[j].timestamp > event.timestamp - 5000)
                c1 == IF Len(recentScrolls) >= 8
                        THEN Push(c,
                                  [type |-> "RapidScrolling",
                                   timestamp |-> event.timestamp,
                                   scrollCount |-> Len(recentScrolls),
                                   duration |-> event.timestamp
                                                  - events[recentScrolls[1]].timestamp,
                                   url |-> c.t.currentUrl,
                                   context |-> getContextAroundEvent(events, i, 5),
                                   sessionId |-> sessionId],
                                  s, i, recentScrolls)
                      ELSE c
            IN [c1 EXCEPT !.t.scrollEvents = scrollEvents,
                          !.t.lastScrollTime = event.timestamp]
     ELSE c

\* `// Detect rapid scrolling`
ScrollBlock(c, events, i, s, sessionId) ==
  LET event == events[i]
  IN IF /\ event.type = "IncrementalSnapshot"
        /\ D(event).incrementalType = Some("Scroll")
       THEN LET scrollEvents == Append(c.t.scrollEvents, i)
                recentScrolls ==
                  SelectSeq(scrollEvents,
                            LAMBDA j : events[j].timestamp > event.timestamp - 5000)
                emits == Len(recentScrolls) >= 8
                c1 == IF emits
                        THEN Push(c,
                                  [type |-> "RapidScrolling",
                                   timestamp |-> event.timestamp,
                                   scrollCount |-> Len(recentScrolls),
                                   duration |-> event.timestamp
                                                  - events[recentScrolls[1]].timestamp,
                                   url |-> c.t.currentUrl,
                                   context |-> getContextAroundEvent(events, i, 5),
                                   sessionId |-> sessionId],
                                  s, i, recentScrolls)
                      ELSE c
            IN [c1 EXCEPT !.t.scrollEvents =
                            IF emits THEN LastTwo(scrollEvents) ELSE scrollEvents,
                          !.t.lastScrollTime = event.timestamp]
     ELSE c

\* the position read from a MouseMove sample
HoverPosition(m) ==
  IF D(m).positions # None /\ Len(Val(D(m).positions)) > 0
    THEN [x |-> Val(D(m).positions)[1].x, y |-> Val(D(m).positions)[1].y]
  ELSE [x |-> Some(0), y |-> Some(0)]

\* a plausible slip: the 30 px test made inclusive
Near30Inclusive(a, b) == a # None /\ b # None /\ Abs(Val(a) - Val(b)) <= 30

\* Math.abs(a - b) < 30 on optional numbers: false when one is missing (NaN)
Near30(a, b) == a # None /\ b # None /\ Abs(Val(a) - Val(b)) < 30

\* a plausible slip: one valid position is enough (some instead of every)
MouseMoveBlockSomeValid(c, events, i, s, sessionId) ==
  LET event == events[i]
  IN IF /\ event.type = "IncrementalSnapshot"
        /\ D(event).incrementalType = Some("MouseMove")
       THEN LET mouseMovements == Append(c.t.mouseMovements, i)
                lastMoves == SubSeq(mouseMovements, Max(1, Len(mouseMovements) - 2),
                                    Len(mouseMovements))
                positions == [k \in 1..Len(lastMoves) |->
                                HoverPosition(events[lastMoves[k]])]
                emits == /\ Len(mouseMovements) >= 3
                         /\ event.timestamp - c.t.lastMouseMoveTime > 3000
                         /\ \E k \in 1..Len(positions) :
                              positions[k].x # Some(0) \/ positions[k].y # Some(0)
                         /\ \A k \in 2..Len(positions) :
                              /\ Near30(positions[k].x, positions[k - 1].x)
                              /\ Near30(positions[k].y, positions[k - 1].y)
                c1 == IF emits
                        THEN Push(c,
                                  [type |-> "MouseHovering",
                                   timestamp |-> event.timestamp,
                                   duration |-> event.timestamp
                                                  - events[lastMoves[1]].timestamp,
                                   position |-> positions[Len(positions)],
                                   url |-> c.t.currentUrl,
                                   context |-> getContextAroundEvent(events, i, 3),
                                   sessionId |-> sessionId],
                                  s, i, lastMoves)
                      ELSE c
            IN [c1 EXCEPT !.t.mouseMovements = mouseMovements,
                          !.t.lastMouseMoveTime = event.timestamp]
     ELSE c

\* `// Detect mouse hovering`
MouseMoveBlock(c, events, i, s, sessionId) ==
  LET event == events[i]
  IN IF /\ event.type = "IncrementalSnapshot"
        /\ D(event).incrementalType = Some("MouseMove")
       THEN LET mouseMovements == Append(c.t.mouseMovements, i)
                lastMoves == SubSeq(mouseMovements, Max(1, Len(mouseMovements) - 2),
                                    Len(mouseMovements))
                positions == [k \in 1..Len(lastMoves) |->
                                HoverPosition(events[lastMoves[k]])]
                allPositionsValid ==
                  \A k \in 1..Len(positions) :
                    positions[k].x # Some(0) \/ positions[k].y # Some(0)
                allPositionsWithinRange ==
                  \A k \in 2..Len(positions) :
                    /\ Near30(positions[k].x, positions[k - 1].x)
                    /\ Near30(positions[k].y, positions[k - 1].y)
                emits == /\ Len(mouseMovements) >= 3
                         /\ event.timestamp - c.t.lastMouseMoveTime > 3000
                         /\ allPositionsValid
                         /\ allPositionsWithinRange
                c1 == IF emits
                        THEN Push(c,
                                  [type |-> "MouseHovering",
                                   timestamp |-> event.timestamp,
                                   duration |-> event.timestamp
                                                  - events[lastMoves[1]].timestamp,
                                   position |-> positions[Len(positions)],
                                   url |-> c.t.currentUrl,
                                   context |-> getContextAroundEvent(events, i, 3),
                                   sessionId |-> sessionId],
                                  s, i, lastMoves)
                      ELSE c
            IN [c1 EXCEPT !.t.mouseMovements = mouseMovements,
                          !.t.lastMouseMoveTime = event.timestamp]
     ELSE c

\* `// Detect hesitation`
HesitationBlock(c, events, i, s, sessionId) ==
  IF i > 1
    THEN LET event == events[i]
             prevEvent == events[i - 1]
             timeDiff == event.timestamp - prevEvent.timestamp
         IN IF /\ timeDiff > 10000
               /\ timeDiff < 300000
               /\ event.type = "IncrementalSnapshot"
               /\ prevEvent.type = "IncrementalSnapshot"
               /\ D(event).incrementalType \in {Some("MouseInteraction"), Some("Input")}
              THEN Push(c,
                        [type |-> "Hesitation",
                         timestamp |-> event.timestamp,
                         durationMs |-> timeDiff,
                         beforeEvent |-> prevEvent,
                         afterEvent |-> event,
                         url |-> c.t.currentUrl,
                         context |-> getContextAroundEvent(events, i, 5),
                         sessionId |-> sessionId],
                        s, i, <<i - 1, i>>)
            ELSE c
  ELSE c

\* the submit-style test on an element
IsSubmitStyle(el) ==
  \/ /\ el.tag = Some("BUTTON")
     /\ el.attributes # None
     /\ Val(el.attributes).type = Some("submit")
  \/ /\ TruthyChars(el.className)
     /\ \/ Includes(Val(el.className), <<"s", "u", "b", "m", "i", "t">>)
        \/ Includes(Val(el.className), <<"s", "e", "n", "d">>)

\* the filter of recentSubmissions
IsRecentSubmission(e, event) ==
  /\ e.type = "IncrementalSnapshot"
  /\ D(e).incrementalType = Some("MouseInteraction")
  /\ e.timestamp > event.timestamp - 10000
  /\ e.element # None
  /\ IsSubmitStyle(Val(e.element))

\* a plausible slip: the lookback of the form check (10 events) copied here
SubmissionBlockShortLookback(c, events, i, s, sessionId) ==
  LET event == events[i]
  IN IF /\ event.type = "IncrementalSnapshot"
        /\ D(event).incrementalType = Some("MouseInteraction")
        /\ D(event).interactionType = Some("Click")
        /\ event.element # None
        /\ IsSubmitStyle(Val(event.element))
       THEN LET recentSubmissions ==
                  SelectSeq(Indices(Max(1, i - 10), i - 1),
                            LAMBDA j : IsRecentSubmission(events[j], event))
            IN IF Len(recentSubmissions) >= 2
                 THEN Push(c,
                           [type |-> "MultipleSubmissions",
                            timestamp |-> event.timestamp,
                            count |-> Len(recentSubmissions) + 1,
                            element |-> event.element,
                            url |-> c.t.currentUrl,
                            context |-> getContextAroundEvent(events, i, 10),
                            sessionId |-> sessionId],
                           s, i, recentSubmissions)
               ELSE c
     ELSE c

\* `// Detect multi-click submissions`
SubmissionBlock(c, events, i, s, sessionId) ==
  LET event == events[i]
  IN IF /\ event.type = "IncrementalSnapshot"
        /\ D(event).incrementalType = Some("MouseInteraction")
        /\ D(event).interactionType = Some("Click")
        /\ event.element # None
        /\ IsSubmitStyle(Val(event.element))
       THEN LET recentSubmissions ==
                  SelectSeq(Indices(Max(1, i - 20), i - 1),
                            LAMBDA j : IsRecentSubmission(events[j], event))
            IN IF Len(recentSubmissions) >= 2
                 THEN Push(c,
                           [type |-> "MultipleSubmissions",
                            timestamp |-> event.timestamp,
                            count |-> Len(recentSubmissions) + 1,
                            element |-> event.element,
                            url |-> c.t.currentUrl,
                            context |-> getContextAroundEvent(events, i, 10),
                            sessionId |-> sessionId],
                           s, i, recentSubmissions)
               ELSE c
     ELSE c

\* `// Detect viewport issues`
HorizontalScrollBlock(c, events, i, s, sessionId) ==
  LET event == events[i]
  IN IF /\ c.t.viewportSize.width < 768
        /\ event.type = "IncrementalSnapshot"
        /\ D(event).incrementalType = Some("Scroll")
        /\ D(event).x # None
        /\ Val(D(event).x) > 0
       THEN Push(c,
                 [type |-> "HorizontalScrollMobile",
                  timestamp |-> event.timestamp,
                  viewport |-> c.t.viewportSize,
                  scrollX |-> Val(D(event).x),
                  url |-> c.t.currentUrl,
                  sessionId |-> sessionId],
                 s, i, <<>>)
     ELSE c

\* one iteration of `// Second pass for complex patterns`
SecondLoopBody(c, events, i, s, sessionId) ==
  LET c1 == ClickBlock(c, events, i, s, sessionId)
      c2 == InputBlock(c1, events, i)
      c3 == NavigateFormBlock(c2, events, i, s, sessionId)
      c4 == ScrollBlock(c3, events, i, s, sessionId)
      c5 == MouseMoveBlock(c4, events, i, s, sessionId)
      c6 == HesitationBlock(c5, events, i, s, sessionId)
      c7 == SubmissionBlock(c6, events, i, s, sessionId)
  IN HorizontalScrollBlock(c7, events, i, s, sessionId)

\* `// Check for form abandonment at the end of the session`
EndFormAbandonment(c, session, s) ==
  IF TruthyStr(c.t.currentFormId) /\ Len(c.t.formInteractions) > 0
    THEN Push(c,
              [type |-> "FormAbandonment",
               timestamp |-> session.events[Len(session.events)].timestamp,
               formId |-> Val(c.t.currentFormId),
               interactionCount |-> Len(c.t.formInteractions),
               lastValue |-> c.t.lastInputValue,
               url |-> c.t.currentUrl,
               formCompleted |-> FALSE,
               sessionId |-> session.sessionId],
              s, 0, c.t.formInteractions)
  ELSE c

\* the short-session check with a duration of exactly 10000 ms let through
ShortSessionInclusive(c, session, s) ==
  LET sessionDuration == session.metadata.duration
  IN IF sessionDuration <= 10000 /\ Len(c.t.navigationEvents) <= 2
       THEN Push(c,
                 [type |-> "ShortSession",
                  timestamp |-> session.metadata.startTime,
                  durationMs |-> sessionDuration,
                  pageCount |-> Len(c.t.navigationEvents),
                  url |-> c.t.currentUrl,
                  sessionId |-> session.sessionId],
                 s, 0, <<>>)
     ELSE c

\* `// Check for short sessions`
ShortSession(c, session, s) ==
  LET sessionDuration == session.metadata.duration
  IN IF sessionDuration < 10000 /\ Len(c.t.navigationEvents) <= 2
       THEN Push(c,
                 [type |-> "ShortSession",
                  timestamp |-> session.metadata.startTime,
                  durationMs |-> sessionDuration,
                  pageCount |-> Len(c.t.navigationEvents),
                  url |-> c.t.currentUrl,
                  sessionId |-> session.sessionId],
                 s, 0, <<>>)
     ELSE c

IsClick(e) ==
  /\ e.type = "IncrementalSnapshot"
  /\ D(e).incrementalType = Some("MouseInteraction")
  /\ D(e).interactionType = Some("Click")

IsInput(e) ==
  e.type = "IncrementalSnapshot" /\ D(e).incrementalType = Some("Input")

IsNavigate(e) == e.type = "Navigate"

\* the SessionMetrics moment
SessionMetrics(c, session, s) ==
  Push(c,
       [type |-> "SessionMetrics",
        timestamp |-> session.metadata.startTime,
        duration |-> session.metadata.duration,
        clickCount |-> Len(SelectSeq(session.events, IsClick)),
        inputCount |-> Len(SelectSeq(session.events, IsInput)),
        pageViewCount |-> Len(SelectSeq(session.events, IsNavigate)),
        errorCount |-> Len(c.t.errorEvents),
        sessionId |-> session.sessionId],
       s, 0, <<>>)

\* `// Post-session analysis`
PostSessionAnalysis(c, session, s) ==
  SessionMetrics(ShortSession(EndFormAbandonment(c, session, s), session, s),
                 session, s)

RECURSIVE SecondLoop(_, _, _, _, _)
\* `// Second pass for complex patterns`: events 1..k
SecondLoop(c, events, k, s, sessionId) ==
  IF k = 0 THEN c
  ELSE SecondLoopBody(SecondLoop(c, events, k - 1, s, sessionId),
                      events, k, s, sessionId)

\* the body of `for (const session of rrwebData)` for session number s, on
\* the moments gathered so far; defined where the first loop does not throw
ExtractSession(c, session, s) ==
  IF Len(session.events) = 0 THEN c
  ELSE LET n == Len(session.events)
           c0 == [c EXCEPT !.t = InitTrack(session)]
           c1 == FirstLoop(c0, session.events, n, s, session.sessionId)
           c2 == SecondLoop(c1, session.events, n, s, session.sessionId)
       IN PostSessionAnalysis(c2, session, s)

RECURSIVE ExtractSessions(_, _)
\* the sessions 1..k of data, one after the other
ExtractSessions(data, k) ==
  IF k = 0 THEN [t |-> InitTrack([metadata |-> [url |-> ""]]), km |-> <<>>, og |-> <<>>]
  ELSE ExtractSession(ExtractSessions(data, k - 1), data[k], k)

\* the value extractKeyMoments(data) returns
extractKeyMoments(data) == ExtractSessions(data, Len(data)).km

\* ------------------------------------------------------------------------
\* syncWithPostHogEvents: the join
\* ------------------------------------------------------------------------
\* a plausible slip: a timestamp that is no date counted as 0
\* (`new Date(timestamp).getTime() || 0`)
DateGetTimeOrZero(ts) ==
  IF ts.date = "1970-01-01"
    THEN Some(((ts.h * 60 + ts.mi) * 60 + ts.s) * 1000 + ts.ms)
  ELSE Some(0)

\* new Date(timestamp).getTime(): epoch milliseconds of an ISO string of
\* 1970-01-01 UTC, NaN (None) for a string that is no date
DateGetTime(ts) ==
  IF ts.date = "1970-01-01"
    THEN Some(((ts.h * 60 + ts.mi) * 60 + ts.s) * 1000 + ts.ms)
  ELSE None

\* { ...event, normalizedTimestamp }
Normalize(event) == event @@ ("normalizedTimestamp" :> DateGetTime(event.timestamp))

\* Math.abs(event.normalizedTimestamp - moment.timestamp); defined for a
\* normalizedTimestamp that is a number
TimeDiffMs(event, moment) == Abs(Val(event.normalizedTimestamp) - moment.timestamp)

\* a plausible slip: the window test made inclusive
IsNearbyInclusive(event, moment) ==
  /\ event.normalizedTimestamp # None
  /\ Abs(Val(event.normalizedTimestamp) - moment.timestamp) <= NEARBY_EVENT_WINDOW_MS

\* the filter of nearbyEvents: a comparison with NaN is false
IsNearby(event, moment) ==
  /\ event.normalizedTimestamp # None
  /\ TimeDiffMs(event, moment) < NEARBY_EVENT_WINDOW_MS

\* a plausible slip: the events are left in the order given
InsertAtEnd(sorted, e, moment) == Append(sorted, e)

\* place e behind every element that is not farther from the moment than e
InsertByProximity(sorted, e, moment) ==
  LET k == Cardinality({j \in 1..Len(sorted) :
                          TimeDiffMs(sorted[j], moment) <= TimeDiffMs(e, moment)})
  IN SubSeq(sorted, 1, k) \o <<e>> \o SubSeq(sorted, k + 1, Len(sorted))

RECURSIVE SortByProximity(_, _)
\* nearbyEvents.sort(...) by distance from the moment (stable)
SortByProximity(events, moment) ==
  IF events = <<>> THEN <<>>
  ELSE InsertByProximity(
         SortByProximity(SubSeq(events, 1, Len(events) - 1), moment),
         events[Len(events)], moment)

\* the distances d at which 100 * (1 - d / 30000) lies exactly half way between
\* two integers and the double 1 - d / 30000 is below the exact value, so
\* that toFixed(2) gives the lower neighbour (IEEE 754 binary64 arithmetic)
HalfwayRoundedDown ==
  {150, 450, 750, 1050, 1350, 1650, 4050, 4350, 4650, 4950, 5250, 5550, 5850,
   7650, 7950, 8250, 11550, 11850, 12150, 12450, 12750, 13050, 13350, 13650,
   13950, 15150, 15450, 15750, 16050, 16350, 16650, 19050, 19350, 19650,
   19950, 20250, 20550, 22650, 22950, 23250, 23550, 23850, 24150, 26550,
   26850, 27150, 27450, 27750, 28050}

\* a plausible slip: the score cut to two decimals instead of rounded
RelevanceScoreTruncated(timeDiffMs) ==
  ((NEARBY_EVENT_WINDOW_MS - timeDiffMs) * 100) \div NEARBY_EVENT_WINDOW_MS

\* parseFloat((1 - timeDiffMs / NEARBY_EVENT_WINDOW_MS).toFixed(2)), in
\* hundredths, for 0 <= timeDiffMs < NEARBY_EVENT_WINDOW_MS
RelevanceScore(timeDiffMs) ==
  LET scaled == (NEARBY_EVENT_WINDOW_MS - timeDiffMs) * 100
      whole == scaled \div NEARBY_EVENT_WINDOW_MS
      rest == scaled % NEARBY_EVENT_WINDOW_MS
  IN IF 2 * rest > NEARBY_EVENT_WINDOW_MS THEN whole + 1
     ELSE IF 2 * rest < NEARBY_EVENT_WINDOW_MS THEN whole
     ELSE IF timeDiffMs \in HalfwayRoundedDown THEN whole
     ELSE whole + 1

\* the body of keyMoments.map(moment => ...)
SyncMoment(moment, normalizedPosthogEvents) ==
  LET nearbyEvents ==
        SortByProximity(
          SelectSeq(normalizedPosthogEvents, LAMBDA e : IsNearby(e, moment)),
          moment)
      relevantEvents ==
        [k \in 1..Len(nearbyEvents) |->
           nearbyEvents[k] @@
             ("relevanceScore" :> RelevanceScore(TimeDiffMs(nearbyEvents[k], moment)))]
  IN moment @@ ("nearbyPosthogEvents" :> relevantEvents)

\* a plausible slip: only the moments that have a PostHog event nearby are
\* returned
SyncResultNearbyOnly(moments, events) ==
  LET normalizedPosthogEvents == [k \in 1..Len(events) |-> Normalize(events[k])]
      correlated ==
        SelectSeq(moments,
                  LAMBDA m : \E k \in 1..Len(events) :
                               IsNearby(normalizedPosthogEvents[k], m))
  IN [posthogEvents |-> normalizedPosthogEvents,
      rrwebKeyMoments |->
        [k \in 1..Len(correlated) |->
           SyncMoment(correlated[k], normalizedPosthogEvents)]]

\* the value syncWithPostHogEvents returns, given the moments extracted
SyncResult(moments, events) ==
  LET normalizedPosthogEvents == [k \in 1..Len(events) |-> Normalize(events[k])]
  IN [posthogEvents |-> normalizedPosthogEvents,
      rrwebKeyMoments |->
        [k \in 1..Len(moments) |-> SyncMoment(moments[k], normalizedPosthogEvents)]]

\* ------------------------------------------------------------------------
\* The pipeline as a state machine
\* ------------------------------------------------------------------------
VARIABLES
  file,           \* the RRweb data file: [exists, parses, sessions]
  posthogEvents,  \* the PostHog events handed to syncWithPostHogEvents
  rrwebData,      \* processedRRwebData, the value of loadRRwebData
  keyMoments,     \* extractKeyMoments: the moments pushed so far
  origin,         \* provenance of each moment (history, not program state)
  track,          \* extractKeyMoments: the tracking variables of the session
  si,              \* extractKeyMoments: index of the session being scanned
  i,              \* extractKeyMoments: index of the event of the second loop
  pc,             \* position in the pipeline
  syncResult,     \* the value of syncWithPostHogEvents (None before it returns)
  run,            \* number of the pipeline run on these inputs
  firstResult,    \* syncResult of the first run (None during it)
  call,           \* a function called on its own: [fn, ...its arguments]
  result,         \* the value that call returned (None before it returns)
  mainPc,         \* index.ts: position of main ("off" when it is not run)
  checks,         \* index.ts: the checkForIssues runs started so far
  ticks           \* index.ts: number of times the interval has fired

\* index.ts: main and its checks
sched == <<mainPc, checks, ticks>>

\* the variables of the other entry points of the program
aux == <<call, result, mainPc, checks, ticks>>

vars == <<file, posthogEvents, rrwebData, keyMoments, origin, track, si, i, pc,
          syncResult, run, firstResult, call, result, mainPc, checks, ticks>>

\* main is not run
SchedIdle ==
  /\ mainPc = "off"
  /\ checks = <<>>
  /\ ticks = 0

\* no other entry point is in use
AuxIdle ==
  /\ call = None
  /\ result = None
  /\ SchedIdle

\* a session before its scan: every tracking variable as declared
IdleTrack == InitTrack([metadata |-> [url |-> ""]])

\* the state before the first run on the inputs f and p
Start(f, p) ==
  /\ AuxIdle
  /\ file = f
  /\ posthogEvents = p
  /\ rrwebData = <<>>
  /\ keyMoments = <<>>
  /\ origin = <<>>
  /\ track = IdleTrack
  /\ si = 1
  /\ i = 0
  /\ pc = "load"
  /\ syncResult = None
  /\ run = 1
  /\ firstResult = None

\* processWithRRwebData: const processedRRwebData = loadRRwebData(path)
LoadRRwebData ==
  /\ UNCHANGED aux
  /\ pc = "load"
  /\ \E gens \in [1..(IF InvalidFile(file) THEN 0 ELSE Len(Val(file.sessions)))
                    -> GeneratedIds] :
       rrwebData' = loadRRwebData(file, gens)
  /\ pc' = "session"
  /\ si' = 1
  /\ UNCHANGED <<file, posthogEvents, keyMoments, origin, track, i, syncResult,
                 run, firstResult>>

\* a plausible slip: viewportSize and currentUrl declared once, before the
\* loop over the sessions, so that a session starts with what the last one left
StartSessionWithoutReset ==
  /\ UNCHANGED aux
  /\ pc = "session"
  /\ si <= Len(rrwebData)
  /\ IF Len(rrwebData[si].events) = 0
       THEN /\ si' = si + 1
            /\ UNCHANGED <<pc, track>>
       ELSE /\ track' = [InitTrack(rrwebData[si]) EXCEPT
                           !.viewportSize = track.viewportSize,
                           !.currentUrl = track.currentUrl]
            /\ pc' = "first"
            /\ si' = si
  /\ UNCHANGED <<file, posthogEvents, rrwebData, keyMoments, origin, i,
                 syncResult, run, firstResult>>

\* extractKeyMoments: the head of `for (const session of rrwebData)` with the
\* declarations of the tracking variables; an empty session is skipped
StartSession ==
  /\ UNCHANGED aux
  /\ pc = "session"
  /\ si <= Len(rrwebData)
  /\ IF Len(rrwebData[si].events) = 0
       THEN /\ si' = si + 1
            /\ UNCHANGED <<pc, track>>
       ELSE /\ track' = InitTrack(rrwebData[si])
            /\ pc' = "first"
            /\ si' = si
  /\ UNCHANGED <<file, posthogEvents, rrwebData, keyMoments, origin, i,
                 syncResult, run, firstResult>>

\* extractKeyMoments: the first loop over the events of the session
FirstPass ==
  /\ UNCHANGED aux
  /\ pc = "first"
  /\ LET session == rrwebData[si]
         thrownAt == FirstLoopThrowsAt(session.events)
         c == FirstLoop([t |-> track, km |-> keyMoments, og |-> origin],
                        session.events,
                        IF thrownAt = 0 THEN Len(session.events) ELSE thrownAt - 1,
                        si, session.sessionId)
     IN /\ track' = c.t
        /\ keyMoments' = c.km
        /\ origin' = c.og
        \* no try/catch in extractKeyMoments or syncWithPostHogEvents: the
        \* TypeError leaves both functions and nothing is returned
        /\ IF thrownAt = 0
             THEN pc' = "second" /\ i' = 1
             ELSE pc' = "threw" /\ i' = thrownAt
  /\ UNCHANGED <<file, posthogEvents, rrwebData, si, syncResult, run, firstResult>>

\* extractKeyMoments: one iteration of the second loop
SecondPass ==
  /\ UNCHANGED aux
  /\ pc = "second"
  /\ LET session == rrwebData[si]
         c == SecondLoopBody([t |-> track, km |-> keyMoments, og |-> origin],
                             session.events, i, si, session.sessionId)
     IN /\ track' = c.t
        /\ keyMoments' = c.km
        /\ origin' = c.og
        /\ IF i < Len(session.events)
             THEN i' = i + 1 /\ pc' = "second"
             ELSE i' = i /\ pc' = "post"
  /\ UNCHANGED <<file, posthogEvents, rrwebData, si, syncResult, run, firstResult>>

\* extractKeyMoments: the post-session analysis, then the next session
PostSession ==
  /\ UNCHANGED aux
  /\ pc = "post"
  /\ LET c == PostSessionAnalysis([t |-> track, km |-> keyMoments, og |-> origin],
                                  rrwebData[si], si)
     IN /\ track' = c.t
        /\ keyMoments' = c.km
        /\ origin' = c.og
  /\ pc' = "session"
  /\ si' = si + 1
  /\ i' = 0
  /\ UNCHANGED <<file, posthogEvents, rrwebData, syncResult, run, firstResult>>

\* a plausible slip: normalizedTimestamp written onto the events of the
\* caller's list instead of onto copies of them
SyncWithPostHogEventsInPlace ==
  /\ UNCHANGED aux
  /\ pc = "session"
  /\ si > Len(rrwebData)
  /\ syncResult' = Some(SyncResult(keyMoments, posthogEvents))
  /\ posthogEvents' = [k \in 1..Len(posthogEvents) |-> Normalize(posthogEvents[k])]
  /\ pc' = "done"
  /\ UNCHANGED <<file, rrwebData, keyMoments, origin, track, si, i, run, firstResult>>

\* syncWithPostHogEvents after `const keyMoments = extractKeyMoments(rrwebData)`
SyncWithPostHogEvents ==
  /\ UNCHANGED aux
  /\ pc = "session"
  /\ si > Len(rrwebData)
  /\ syncResult' = Some(SyncResult(keyMoments, posthogEvents))
  /\ pc' = "done"
  /\ UNCHANGED <<file, posthogEvents, rrwebData, keyMoments, origin, track, si, i,
                 run, firstResult>>

Next ==
  \/ LoadRRwebData
  \/ StartSession
  \/ FirstPass
  \/ SecondPass
  \/ PostSession
  \/ SyncWithPostHogEvents

\* the next periodic check: the pipeline runs again on the same inputs
RunAgain ==
  /\ UNCHANGED aux
  /\ pc = "done"
  /\ run = 1
  /\ firstResult' = syncResult
  /\ run' = 2
  /\ rrwebData' = <<>>
  /\ keyMoments' = <<>>
  /\ origin' = <<>>
  /\ track' = IdleTrack
  /\ si' = 1
  /\ i' = 0
  /\ pc' = "load"
  /\ syncResult' = None
  /\ UNCHANGED <<file, posthogEvents>>

NextTwice == Next \/ RunAgain

\* ------------------------------------------------------------------------
\* Inputs
\* ------------------------------------------------------------------------
\* a readable data file holding the sessions
File(sessions) == [exists |-> TRUE, parses |-> TRUE, sessions |-> Some(sessions)]

\* a raw session with one record
Session(id, events) ==
  [sessionId |-> id, records |-> Some(<<[events |-> Some(events)]>>)]

Target(tag, className, attributes) ==
  Some([tagName |-> tag, className |-> className, attributes |-> attributes])

\* a raw MouseInteraction record
MouseRecord(ts, interaction, target, x, y) ==
  [type |-> RRwebEventType_IncrementalSnapshot,
   timestamp |-> ts,
   data |-> Some([NoData EXCEPT
                    !.source = Some(IncrementalSnapshotType_MouseInteraction),
                    !.type = Some(interaction),
                    !.target = target,
                    !.x = x,
                    !.y = y])]

\* a raw Custom record carrying a payload value
CustomRecord(ts, value) ==
  [type |-> RRwebEventType_Custom,
   timestamp |-> ts,
   data |-> Some([NoData EXCEPT !.value = Some(value)])]

Div == Target(Some("DIV"), None, None)

\* a PostHog event; its timestamp is an ISO string
PostHogEvent(id, ts) ==
  [id |-> id, event |-> "$autocapture", distinct_id |-> "u1", timestamp |-> ts]

Iso(sec, msec) == [date |-> "1970-01-01", h |-> 0, mi |-> 0, s |-> sec, ms |-> msec]

NotADate == [date |-> "not a date", h |-> 0, mi |-> 0, s |-> 0, ms |-> 0]

EventIds == <<"e1", "e2", "e3", "e4", "e5", "e6">>

\* PostHog event lists with the given timestamps, ids by position
PostHogLists(stamps, n) ==
  {[k \in 1..Len(q) |-> PostHogEvent(EventIds[k], q[k])] : q \in SeqsUpTo(stamps, n)}

\* --- rage clicks: clicks 900 or 1000 ms apart, in area A or away from it ---
MaxRageClicks == 4

RageGaps == {900, 1000}

RageShapes ==
  {[interaction |-> MouseInteractionType_Click, x |-> 100],
   [interaction |-> MouseInteractionType_MouseDown, x |-> 105],
   [interaction |-> MouseInteractionType_Click, x |-> 150]}

RageSteps == [gap : RageGaps, shape : RageShapes]

RECURSIVE TimeAt(_, _)
TimeAt(steps, k) == IF k = 0 THEN 0 ELSE TimeAt(steps, k - 1) + steps[k].gap

RageEvents(steps) ==
  [k \in 1..Len(steps) |->
     MouseRecord(TimeAt(steps, k), steps[k].shape.interaction, Div,
                 Some(steps[k].shape.x), Some(100))]

InitRage ==
  \E steps \in SeqsUpTo(RageSteps, MaxRageClicks) :
    Start(File(<<Session(Some("s1"), RageEvents(steps))>>), <<>>)

SpecRage == InitRage /\ [][Next]_vars

\* ------------------------------------------------------------------------
\* Properties: rage clicks
\* ------------------------------------------------------------------------
\* the positions in keyMoments of the moments of one kind
MomentsOf(kind) == {n \in 1..Len(keyMoments) : keyMoments[n].type = kind}

\* the events of the session that moment n comes from
EventsOf(n) == rrwebData[origin[n].s].events

\* the Click/MouseDown events of evs among the indices lo..hi
ClicksIn(evs, lo, hi) == {j \in lo..hi : IsClickOrMouseDown(evs[j])}

\* the clicks a RageClick counted are as many as its clickCount, at least 3,
\* distinct Click/MouseDown events not later than the trigger
CountedClicks(n) ==
  LET o == origin[n]
      evs == EventsOf(n)
  IN /\ keyMoments[n].clickCount >= 3
     /\ Len(o.counted) = keyMoments[n].clickCount
     /\ Cardinality(Range(o.counted)) = Len(o.counted)
     /\ Range(o.counted) \subseteq ClicksIn(evs, 1, o.i)

\* C7 as stated: every RageClick with clickCount = k is backed by k
\* Click/MouseDown events, k >= 3, that all lie within the 1000 ms window
\* ending at the triggering click
C7_AllWithinWindowOfTrigger ==
  \A n \in MomentsOf("RageClick") :
    /\ CountedClicks(n)
    /\ \A j \in Range(origin[n].counted) :
         EventsOf(n)[origin[n].i].timestamp - EventsOf(n)[j].timestamp
           < MAX_RAGE_CLICK_INTERVAL

\* C7 amended: every RageClick with clickCount = k is backed by k
\* Click/MouseDown events, k >= 3, of one run of clicks ending at the
\* triggering click in which every click comes less than 1000 ms after the
\* click before it (the run as a whole may span more than 1000 ms)
C7_EachWithinIntervalOfPrevious ==
  \A n \in MomentsOf("RageClick") :
    /\ CountedClicks(n)
    /\ LET evs == EventsOf(n)
           run1 == ClicksIn(evs, origin[n].counted[1], origin[n].i)
       IN \A j \in run1 :
            \A k \in run1 :
              (j < k /\ ClicksIn(evs, j + 1, k - 1) = {})
                => evs[k].timestamp - evs[j].timestamp < MAX_RAGE_CLICK_INTERVAL

\* a RageClick whose counted clicks span 1000 ms or more
C7_Witness ==
  \E n \in MomentsOf("RageClick") :
    EventsOf(n)[origin[n].i].timestamp
      - EventsOf(n)[origin[n].counted[1]].timestamp >= MAX_RAGE_CLICK_INTERVAL

\* the event of the second loop in the current state
CurrentEvent == rrwebData[si].events[i]

\* the step pushes a RageClick
PushesRageClick ==
  \E n \in (Len(keyMoments) + 1)..Len(keyMoments') : keyMoments'[n].type = "RageClick"

\* the scan is at a click that has no click before it or comes 1000 ms or
\* more after the click before it
AtLateClick ==
  /\ pc = "second"
  /\ IsClickOrMouseDown(CurrentEvent)
  /\ \A j \in ClicksIn(rrwebData[si].events, 1, i - 1) :
       ClicksIn(rrwebData[si].events, j + 1, i - 1) = {}
         => CurrentEvent.timestamp - rrwebData[si].events[j].timestamp
              >= MAX_RAGE_CLICK_INTERVAL

\* a session of exactly four clicks: three in one area, each less than
\* 1000 ms after the one before, then a fourth 1000 ms or more later
ThreeRapidThenLate(evs) ==
  /\ Len(evs) = 4
  /\ \A k \in 1..4 : IsClickOrMouseDown(evs[k])
  /\ \A k \in 2..3 : evs[k].timestamp - evs[k - 1].timestamp < MAX_RAGE_CLICK_INTERVAL
  /\ \A k \in 1..2 :
       /\ Abs(PosX(Val(evs[k].element)) - PosX(Val(evs[3].element))) < 20
       /\ Abs(PosY(Val(evs[k].element)) - PosY(Val(evs[3].element))) < 20
  /\ evs[4].timestamp - evs[3].timestamp >= MAX_RAGE_CLICK_INTERVAL

\* no click is counted by two RageClick moments, and three rapid same-area
\* clicks followed by a late fourth give one RageClick with clickCount 3
C8_NoClickCountedTwice ==
  /\ \A n \in MomentsOf("RageClick") :
       \A m \in MomentsOf("RageClick") :
         (n # m /\ origin[n].s = origin[m].s)
           => Range(origin[n].counted) \cap Range(origin[m].counted) = {}
  /\ (pc = "done" /\ Len(rrwebData) = 1 /\ ThreeRapidThenLate(rrwebData[1].events))
       => /\ Cardinality(MomentsOf("RageClick")) = 1
          /\ \A n \in MomentsOf("RageClick") : keyMoments[n].clickCount = 3

\* C8: in the RageClick detector a click arriving 1000 ms or more after the
\* previous click starts a new cluster containing only itself, the cluster
\* is emptied after a RageClick is emitted, no click is counted by two
\* RageClick moments, and three rapid same-area clicks followed by a late
\* fourth click give exactly one RageClick with clickCount 3
C8_ClusterRestarts ==
  /\ []C8_NoClickCountedTwice
  /\ [][/\ AtLateClick => track'.clickEvents = <<i>>
        /\ PushesRageClick => track'.clickEvents = <<>>]_vars

\* the four-click scenario has run and gave its single RageClick
C8_Witness ==
  /\ pc = "done"
  /\ Len(rrwebData) = 1
  /\ ThreeRapidThenLate(rrwebData[1].events)
  /\ Cardinality(MomentsOf("RageClick")) = 1

\* ------------------------------------------------------------------------
\* Inputs: clicks in and out of the same area
\* ------------------------------------------------------------------------
MaxAreaClicks == 4

\* a click without a target, or a click on a DIV at the given coordinates
AreaShapes ==
  {[target |-> None, x |-> None, y |-> None],
   [target |-> Div, x |-> None, y |-> None],
   [target |-> Div, x |-> Some(19), y |-> Some(19)],
   [target |-> Div, x |-> Some(20), y |-> Some(19)],
   [target |-> Div, x |-> Some(19), y |-> Some(20)],
   [target |-> Div, x |-> Some(38), y |-> Some(38)]}

\* clicks 100 ms apart
AreaEvents(shapes) ==
  [k \in 1..Len(shapes) |->
     MouseRecord(100 * k, MouseInteractionType_Click, shapes[k].target,
                 shapes[k].x, shapes[k].y)]

InitArea ==
  \E shapes \in SeqsUpTo(AreaShapes, MaxAreaClicks) :
    Start(File(<<Session(Some("s1"), AreaEvents(shapes))>>), <<>>)

SpecArea == InitArea /\ [][Next]_vars

\* ------------------------------------------------------------------------
\* Properties: the same-area test
\* ------------------------------------------------------------------------
\* a coordinate of the element of event e, a missing one read as 0
CoordX(e) ==
  IF Val(e.element).position = None \/ Val(Val(e.element).position).x = None
    THEN 0
  ELSE Val(Val(Val(e.element).position).x)

CoordY(e) ==
  IF Val(e.element).position = None \/ Val(Val(e.element).position).y = None
    THEN 0
  ELSE Val(Val(Val(e.element).position).y)

\* both events have an element and the two are less than 20 px apart on each axis
PerAxisWithin20(click, trigger) ==
  /\ click.element # None
  /\ trigger.element # None
  /\ Abs(CoordX(click) - CoordX(trigger)) < 20
  /\ Abs(CoordY(click) - CoordY(trigger)) < 20

\* the clicks of the cluster, the current one included, that are within
\* 20 px of the current click on each axis
SameAreaOfCluster ==
  {j \in Range(track.clickEvents) \cup {i} :
     PerAxisWithin20(rrwebData[si].events[j], CurrentEvent)}

\* the scan is at a click that follows the previous click of its cluster by
\* less than 1000 ms and makes the cluster at least 3 clicks long
AtThirdClickOfCluster ==
  /\ pc = "second"
  /\ IsClickOrMouseDown(CurrentEvent)
  /\ CurrentEvent.timestamp - track.lastClickTime < MAX_RAGE_CLICK_INTERVAL
  /\ Len(track.clickEvents) >= 2

\* C9: a click of the current cluster is counted as same-area exactly when
\* both |dx| < 20 and |dy| < 20 relative to the triggering click's element
\* position (strict, per axis, missing coordinates read as 0), and a click
\* without an element is never counted: the clicks a RageClick counts are
\* exactly those clicks of the cluster, and the RageClick is pushed exactly
\* when there are 3 or more of them
C9_PerAxisSameArea ==
  [][AtThirdClickOfCluster =>
       /\ PushesRageClick <=> Cardinality(SameAreaOfCluster) >= 3
       /\ \A n \in (Len(keyMoments) + 1)..Len(keyMoments') :
            keyMoments'[n].type = "RageClick" =>
              /\ Range(origin'[n].counted) = SameAreaOfCluster
              /\ keyMoments'[n].clickCount = Cardinality(SameAreaOfCluster)]_vars

\* a RageClick that counted a click 19 px away on both axes (farther than 20 px
\* in a straight line) and left out an earlier click that is 20 px away on
\* one axis
C9_Witness ==
  \E n \in MomentsOf("RageClick") :
    LET evs == EventsOf(n)
        trigger == evs[origin[n].i]
    IN /\ \E j \in Range(origin[n].counted) :
            /\ Abs(CoordX(evs[j]) - CoordX(trigger)) = 19
            /\ Abs(CoordY(evs[j]) - CoordY(trigger)) = 19
       /\ \E j \in 1..origin[n].i :
            /\ j \notin Range(origin[n].counted)
            /\ evs[j].element # None
            /\ \/ Abs(CoordX(evs[j]) - CoordX(trigger)) = 20
               \/ Abs(CoordY(evs[j]) - CoordY(trigger)) = 20

\* a RageClick that left out an earlier click without an element
C9_WitnessNoElement ==
  \E n \in MomentsOf("RageClick") :
    \E j \in 1..origin[n].i : EventsOf(n)[j].element = None

\* ------------------------------------------------------------------------
\* Inputs: clicks on elements of every kind
\* ------------------------------------------------------------------------
MaxDeadFollowers == 1

DeadTags == {"BUTTON", "A", "INPUT", "SELECT", "TEXTAREA", "LABEL", "DIV"}

DeadClassNames ==
  {None,
   Some(<<>>),
   Some(<<"c", "a", "r", "d">>),
   Some(<<"x", "b", "t", "n">>),
   Some(<<"b", "u", "t", "t", "o", "n">>)}

DeadAttributes ==
  {None,
   Some([NoAttrs EXCEPT !.role = Some("link")]),
   Some([NoAttrs EXCEPT !.role = Some("button")]),
   Some([NoAttrs EXCEPT !.onclick = Some("go()")])}

DeadTargets ==
  {None} \cup {Target(Some(tag), cn, at) :
                 tag \in DeadTags, cn \in DeadClassNames, at \in DeadAttributes}

DeadFollowers == {Div, Target(Some("BUTTON"), None, None)}

\* a click or mouse-down on any target, then clicks on plain elements
DeadEvents(first, interaction, followers) ==
  <<MouseRecord(1000, interaction, first, Some(10), Some(10))>>
    \o [k \in 1..Len(followers) |->
          MouseRecord(1000 + 2000 * k, MouseInteractionType_Click, followers[k],
                      Some(10), Some(10))]

InitDead ==
  \E first \in DeadTargets :
    \E interaction \in {MouseInteractionType_Click, MouseInteractionType_MouseDown} :
      \E followers \in SeqsUpTo(DeadFollowers, MaxDeadFollowers) :
        Start(File(<<Session(Some("s1"), DeadEvents(first, interaction, followers))>>),
              <<>>)

SpecDead == InitDead /\ [][Next]_vars

\* ------------------------------------------------------------------------
\* Properties: dead clicks
\* ------------------------------------------------------------------------
\* the element is one the claim lists: an interactive tag, a class containing
\* btn or button, role=button, or an onclick handler
ButtonLike(el) ==
  \/ el.tag \in {Some("BUTTON"), Some("A"), Some("INPUT"), Some("SELECT"),
                 Some("TEXTAREA"), Some("LABEL")}
  \/ /\ el.className # None
     /\ \/ Includes(Val(el.className), <<"b", "t", "n">>)
        \/ Includes(Val(el.className), <<"b", "u", "t", "t", "o", "n">>)
  \/ /\ el.attributes # None
     /\ \/ Val(el.attributes).role = Some("button")
        \/ Val(el.attributes).onclick \notin {None, Some("")}

\* C10: no DeadClick moment is ever emitted for a click whose element tag is
\* one of BUTTON, A, INPUT, SELECT, TEXTAREA, LABEL, or whose class contains
\* btn or button, or whose attributes have role=button or an onclick
\* handler, or that has no element at all
C10_NoDeadClickOnButtonLike ==
  \A n \in MomentsOf("DeadClick") :
    LET e == EventsOf(n)[origin[n].i]
    IN /\ e.element # None
       /\ ~ButtonLike(Val(e.element))
       /\ keyMoments[n].element = e.element
       /\ keyMoments[n].timestamp = e.timestamp

\* the scan is over, the session had clicks on a DIV that is button-like by
\* its class, by its role or by its handler, or clicks without an element,
\* and no DeadClick was pushed for them
C10_Witness ==
  /\ pc = "done"
  /\ Len(rrwebData) = 1
  /\ LET e == rrwebData[1].events[1]
     IN /\ IsClickOrMouseDown(e)
        /\ e.element # None
        /\ Val(e.element).tag = Some("DIV")
        /\ ButtonLike(Val(e.element))
        /\ \A n \in MomentsOf("DeadClick") : origin[n].i # 1
  /\ MomentsOf("DeadClick") # {}

\* the class list cn has a token equal to tok (tokens are separated by spaces)
HasClassToken(cn, tok) ==
  \E a \in 1..Len(cn) :
    LET b == a + Len(tok) - 1
    IN /\ b <= Len(cn)
       /\ SubSeq(cn, a, b) = tok
       /\ a = 1 \/ cn[a - 1] = " "
       /\ b = Len(cn) \/ cn[b + 1] = " "

\* the element is button-like when its class list is read token by token
ButtonLikeByToken(el) ==
  \/ el.tag \in {Some("BUTTON"), Some("A"), Some("INPUT"), Some("SELECT"),
                 Some("TEXTAREA"), Some("LABEL")}
  \/ /\ el.className # None
     /\ \/ HasClassToken(Val(el.className), <<"b", "t", "n">>)
        \/ HasClassToken(Val(el.className), <<"b", "u", "t", "t", "o", "n">>)
  \/ /\ el.attributes # None
     /\ \/ Val(el.attributes).role = Some("button")
        \/ Val(el.attributes).onclick \notin {None, Some("")}

\* the DeadClick moments pushed for event j of session k
DeadClicksFor(k, j) ==
  {n \in MomentsOf("DeadClick") : origin[n].s = k /\ origin[n].i = j}

\* C11 as stated: every click on an element whose tag is outside
\* {BUTTON,A,INPUT,SELECT,TEXTAREA,LABEL}, whose class list has no token equal
\* to btn or button, and which has no role=button and no inline click handler
\* emits exactly one DeadClick moment for that click, also when a class token
\* merely contains btn or button as a substring
C11_DeadClickUnlessClassToken ==
  pc = "done" =>
    \A k \in 1..Len(rrwebData) : \A j \in 1..Len(rrwebData[k].events) :
      LET e == rrwebData[k].events[j]
      IN (/\ IsClickOrMouseDown(e)
          /\ e.element # None
          /\ ~ButtonLikeByToken(Val(e.element)))
           => Cardinality(DeadClicksFor(k, j)) = 1

\* C11 (amended): every click on an element whose tag is outside
\* {BUTTON,A,INPUT,SELECT,TEXTAREA,LABEL}, whose class name does not contain
\* btn or button anywhere, and which has no role=button and no inline click
\* handler emits exactly one DeadClick moment for that click
C11_DeadClickUnlessClassSubstring ==
  pc = "done" =>
    \A k \in 1..Len(rrwebData) : \A j \in 1..Len(rrwebData[k].events) :
      LET e == rrwebData[k].events[j]
      IN (/\ IsClickOrMouseDown(e)
          /\ e.element # None
          /\ ~ButtonLike(Val(e.element)))
           => Cardinality(DeadClicksFor(k, j)) = 1

\* the scan is over; a click on a DIV with the plain class `card` got its
\* DeadClick and the click after it on a plain DIV got its own
C11_Witness ==
  /\ pc = "done"
  /\ Len(rrwebData) = 1
  /\ Len(rrwebData[1].events) = 2
  /\ LET e == rrwebData[1].events[1]
     IN /\ IsClickOrMouseDown(e)
        /\ e.element # None
        /\ Val(e.element).tag = Some("DIV")
        /\ Val(e.element).className = Some(<<"c", "a", "r", "d">>)
        /\ ~ButtonLike(Val(e.element))
  /\ Cardinality(DeadClicksFor(1, 1)) = 1
  /\ Cardinality(DeadClicksFor(1, 2)) = 1

\* ------------------------------------------------------------------------
\* Inputs: pauses between events of several kinds
\* ------------------------------------------------------------------------
\* a raw Input record
InputRecord(ts, target, text) ==
  [type |-> RRwebEventType_IncrementalSnapshot,
   timestamp |-> ts,
   data |-> Some([NoData EXCEPT
                    !.source = Some(IncrementalSnapshotType_Input),
                    !.target = target,
                    !.text = text])]

\* a raw Scroll record
ScrollRecord(ts) ==
  [type |-> RRwebEventType_IncrementalSnapshot,
   timestamp |-> ts,
   data |-> Some([NoData EXCEPT !.source = Some(IncrementalSnapshotType_Scroll),
                                !.x = Some(0),
                                !.y = Some(40)])]

\* a raw MouseMove record
MoveRecord(ts) ==
  [type |-> RRwebEventType_IncrementalSnapshot,
   timestamp |-> ts,
   data |-> Some([NoData EXCEPT !.source = Some(IncrementalSnapshotType_MouseMove),
                                !.positions = Some(<<[x |-> Some(50), y |-> Some(50)]>>)])]

\* a raw Meta record of a desktop page
MetaRecord(ts) ==
  [type |-> RRwebEventType_Meta,
   timestamp |-> ts,
   data |-> Some([NoData EXCEPT !.href = Some("/a"),
                                !.width = Some(1024),
                                !.height = Some(768)])]

MaxPauseEvents == 2

PauseKinds == {"click", "input", "scroll", "move", "meta"}

PauseGaps == {10000, 10001, 299999, 300000}

PauseSteps == [kind : PauseKinds, gap : PauseGaps]

RECURSIVE PauseTime(_, _)
PauseTime(steps, k) == IF k = 0 THEN 0 ELSE PauseTime(steps, k - 1) + steps[k].gap

PauseRecord(kind, ts) ==
  CASE kind = "click" -> MouseRecord(ts, MouseInteractionType_Click,
                                     Target(Some("BUTTON"), None, None),
                                     Some(10), Some(10))
    [] kind = "input" -> InputRecord(ts, Target(Some("INPUT"), None, None), Some("a"))
    [] kind = "scroll" -> ScrollRecord(ts)
    [] kind = "move" -> MoveRecord(ts)
    [] kind = "meta" -> MetaRecord(ts)

\* an event of any kind at t = 0, then events of any kind after pauses
PauseEvents(first, steps) ==
  <<PauseRecord(first, 0)>>
    \o [k \in 1..Len(steps) |-> PauseRecord(steps[k].kind, PauseTime(steps, k))]

InitPause ==
  \E first \in PauseKinds :
    \E steps \in SeqsUpTo(PauseSteps, MaxPauseEvents) :
      Start(File(<<Session(Some("s1"), PauseEvents(first, steps))>>), <<>>)

SpecPause == InitPause /\ [][Next]_vars

\* ------------------------------------------------------------------------
\* Properties: hesitation
\* ------------------------------------------------------------------------
\* the event is of the interaction class: a MouseInteraction or an Input
IsInteraction(e) ==
  /\ e.type = "IncrementalSnapshot"
  /\ D(e).incrementalType \in {Some("MouseInteraction"), Some("Input")}

\* C12: a Hesitation moment is emitted at event i only if the gap to event
\* i-1 is strictly greater than 10000 ms and strictly less than 300000 ms and
\* both event i and event i-1 are interaction-class events (MouseInteraction
\* or Input); its durationMs equals that gap
C12_HesitationBetweenInteractions ==
  \A n \in MomentsOf("Hesitation") :
    LET j == origin[n].i
        gap == EventsOf(n)[j].timestamp - EventsOf(n)[j - 1].timestamp
    IN /\ gap > 10000
       /\ gap < 300000
       /\ IsInteraction(EventsOf(n)[j])
       /\ IsInteraction(EventsOf(n)[j - 1])
       /\ keyMoments[n].durationMs = gap

\* ------------------------------------------------------------------------
\* syncWithPostHogEvents called with processed sessions
\* ------------------------------------------------------------------------
\* the state at the call syncWithPostHogEvents(data, p): no file is read
StartSync(data, p) ==
  /\ AuxIdle
  /\ file = [exists |-> FALSE, parses |-> FALSE, sessions |-> None]
  /\ posthogEvents = p
  /\ rrwebData = data
  /\ keyMoments = <<>>
  /\ origin = <<>>
  /\ track = IdleTrack
  /\ si = 1
  /\ i = 0
  /\ pc = "session"
  /\ syncResult = None
  /\ run = 1
  /\ firstResult = None

NextSync ==
  \/ StartSession
  \/ FirstPass
  \/ SecondPass
  \/ PostSession
  \/ SyncWithPostHogEvents

\* a processed Navigate event: `href` is details.href, `at` the url property
NavigateEvent(ts, href, at) ==
  [timestamp |-> ts,
   type |-> "Navigate",
   details |-> Some([NoDetails EXCEPT !.href = href]),
   url |-> at,
   element |-> None]

\* a processed MouseMove event with its sampled positions
MouseMoveEvent(ts, positions) ==
  [timestamp |-> ts,
   type |-> "IncrementalSnapshot",
   details |-> Some([NoDetails EXCEPT !.incrementalType = Some("MouseMove"),
                                      !.positions = positions]),
   url |-> None,
   element |-> None]

\* a processed session of the given events (in timestamp order)
ProcessedSession(id, events) ==
  LET startTime == IF Len(events) > 0 THEN events[1].timestamp ELSE 0
      endTime == IF Len(events) > 0 THEN events[Len(events)].timestamp ELSE 0
  IN [sessionId |-> id,
      events |-> events,
      metadata |-> [startTime |-> startTime,
                    endTime |-> endTime,
                    duration |-> endTime - startTime,
                    url |-> "",
                    userAgent |-> ""]]

\* ------------------------------------------------------------------------
\* Inputs: form inputs, a click, filler events, a Navigate, a trailer
\* ------------------------------------------------------------------------
MaxFormInputs == 3

FormAttrs(id) == Some([NoAttrs EXCEPT !.form = Some(id)])

SubmitButton == Target(Some("BUTTON"), None, Some([NoAttrs EXCEPT !.type = Some("submit")]))

\* the click of the session, by kind
FormClickKinds == {"none", "submit", "bound", "otherform", "plain", "mousedown"}

FormClick(kind, ts) ==
  CASE kind = "submit" -> MouseRecord(ts, MouseInteractionType_Click, SubmitButton,
                                      Some(10), Some(10))
    [] kind = "bound" -> MouseRecord(ts, MouseInteractionType_Click,
                                     Target(Some("A"), None, FormAttrs("f1")),
                                     Some(10), Some(10))
    [] kind = "otherform" -> MouseRecord(ts, MouseInteractionType_Click,
                                         Target(Some("A"), None, FormAttrs("f2")),
                                         Some(10), Some(10))
    [] kind = "plain" -> MouseRecord(ts, MouseInteractionType_Click,
                                     Target(Some("A"), None, None),
                                     Some(10), Some(10))
    [] kind = "mousedown" -> MouseRecord(ts, MouseInteractionType_MouseDown,
                                         SubmitButton, Some(10), Some(10))

\* numbers of filler events between the click and the Navigate: with 9 the
\* click is the 10th event before the Navigate, with 10 the 11th
FormFillers == {0, 9, 10}

FormTrailers == {"none", "move", "input"}

FormShapes ==
  [inputs : 1..MaxFormInputs,
   click : FormClickKinds,
   clickFirst : BOOLEAN,
   fillers : FormFillers,
   navigate : BOOLEAN,
   trailer : FormTrailers]

\* events 100 ms apart
Stamped(ts, k) == ts + 100 * k

FormInputs(n, from) ==
  [k \in 1..n |->
     processRRwebEvent(InputRecord(Stamped(0, from + k),
                                   Target(Some("INPUT"), None, FormAttrs("f1")),
                                   Some("a")))]

FormSessionEvents(sh) ==
  LET click == IF sh.click = "none" THEN <<>>
               ELSE <<processRRwebEvent(
                        FormClick(sh.click,
                                  Stamped(0, IF sh.clickFirst THEN 1
                                             ELSE sh.inputs + 1)))>>
      inputs == FormInputs(sh.inputs, IF sh.clickFirst /\ sh.click # "none" THEN 1 ELSE 0)
      head == IF sh.clickFirst THEN click \o inputs ELSE inputs \o click
      fillers == [k \in 1..sh.fillers |->
                    MouseMoveEvent(Stamped(0, Len(head) + k), None)]
      body == head \o fillers
      nav == IF sh.navigate
               THEN <<NavigateEvent(Stamped(0, Len(body) + 1), Some("/next"),
                                    Some("/next"))>>
             ELSE <<>>
      upto == body \o nav
      trailer == CASE sh.trailer = "none" -> <<>>
                   [] sh.trailer = "move" ->
                        <<MouseMoveEvent(Stamped(0, Len(upto) + 1), None)>>
                   [] sh.trailer = "input" ->
                        FormInputs(1, Len(upto))
  IN upto \o trailer

InitForm ==
  \E sh \in FormShapes :
    StartSync(<<ProcessedSession("s1", FormSessionEvents(sh))>>, <<>>)

SpecForm == InitForm /\ [][NextSync]_vars

\* ------------------------------------------------------------------------
\* Properties: form abandonment
\* ------------------------------------------------------------------------
\* a click on a BUTTON with type=submit or on an element bound to the form
QualifyingSubmitClick(e, formId) ==
  /\ e.type = "IncrementalSnapshot"
  /\ D(e).incrementalType = Some("MouseInteraction")
  /\ D(e).interactionType = Some("Click")
  /\ e.element # None
  /\ LET el == Val(e.element)
     IN \/ /\ el.tag = Some("BUTTON")
           /\ el.attributes # None
           /\ Val(el.attributes).type = Some("submit")
        \/ /\ el.attributes # None
           /\ Val(el.attributes).form = Some(formId)

\* the Input events of evs among the indices lo..hi
InputsIn(evs, lo, hi) == {j \in lo..hi : IsInput(evs[j])}

\* the Input event is on the form
OnForm(e, formId) ==
  /\ e.element # None
  /\ Val(e.element).attributes # None
  /\ Val(Val(e.element).attributes).form = Some(formId)

\* a qualifying submit click is among the 10 events before index j
SubmitWithinLookback(evs, j, formId) ==
  \E k \in Max(1, j - 10)..(j - 1) : QualifyingSubmitClick(evs[k], formId)

\* the session is n >= 2 Input events on form f1 followed by a Navigate at
\* index j, with no Input event after it
InputsThenNavigate(evs, j) ==
  /\ j \in 1..Len(evs)
  /\ evs[j].type = "Navigate"
  /\ \A k \in 1..Len(evs) : evs[k].type = "Navigate" => k = j
  /\ Cardinality(InputsIn(evs, 1, j - 1)) >= 2
  /\ \A k \in InputsIn(evs, 1, j - 1) : OnForm(evs[k], "f1")
  /\ InputsIn(evs, j + 1, Len(evs)) = {}

C13_WitnessSubmitted ==
  /\ pc = "done"
  /\ Len(rrwebData) = 1
  /\ LET evs == rrwebData[1].events
     IN \E j \in 1..Len(evs) :
          /\ InputsThenNavigate(evs, j)
          /\ j > 10
          /\ QualifyingSubmitClick(evs[j - 10], "f1")
  /\ MomentsOf("FormAbandonment") = {}

\* the index of the event at which moment n was pushed; the end-of-session
\* check comes after the last event
TriggerPoint(n) == IF origin[n].i > 0 THEN origin[n].i ELSE Len(EventsOf(n)) + 1

\* C14: every FormAbandonment moment, whether emitted at a Navigate event or
\* by the end-of-session check, has interactionCount >= 2 and is emitted only
\* when no qualifying submit click occurred among the 10 events before the
\* trigger point
C14_AbandonmentNeedsTwoInputsAndNoSubmit ==
  \A n \in MomentsOf("FormAbandonment") :
    /\ keyMoments[n].interactionCount >= 2
    /\ ~SubmitWithinLookback(EventsOf(n), TriggerPoint(n), keyMoments[n].formId)

\* ------------------------------------------------------------------------
\* Inputs: Navigate events to two URLs, with or without the url property
\* ------------------------------------------------------------------------
MaxNavigations == 3

NavigationUrls == {"/a", "/b"}

\* with 60000 twice the first of three events is exactly 120000 ms back
NavigationGaps == {1000, 60000}

NavigationSteps == [href : NavigationUrls, hasUrl : BOOLEAN, gap : NavigationGaps]

RECURSIVE NavigationTime(_, _)
NavigationTime(steps, k) ==
  IF k = 0 THEN 0 ELSE NavigationTime(steps, k - 1) + steps[k].gap

NavigationEvents(steps) ==
  [k \in 1..Len(steps) |->
     NavigateEvent(NavigationTime(steps, k), Some(steps[k].href),
                   IF steps[k].hasUrl THEN Some(steps[k].href) ELSE None)]

InitNavigation ==
  \E steps \in SeqsUpTo(NavigationSteps, MaxNavigations) :
    StartSync(<<ProcessedSession("s1", NavigationEvents(steps))>>, <<>>)

SpecNavigation == InitNavigation /\ [][NextSync]_vars

\* ------------------------------------------------------------------------
\* Properties: navigation loops
\* ------------------------------------------------------------------------
\* the Navigate events to the URL of event j with timestamps in (t-120000, t]
NavigationsToSameUrl(evs, j) ==
  {k \in 1..Len(evs) :
     /\ evs[k].type = "Navigate"
     /\ D(evs[k]).href = D(evs[j]).href
     /\ evs[k].timestamp > evs[j].timestamp - 120000
     /\ evs[k].timestamp <= evs[j].timestamp}

\* C15: a NavigationLoop moment is emitted at a Navigate event at time t if
\* and only if at least 3 Navigate events to the same URL (the current one
\* included) have timestamps in the window (t-120000, t]; its frequency
\* equals that count
C15_NavigationLoopIffThreeInWindow ==
  pc = "done" =>
    \A k \in 1..Len(rrwebData) :
      LET evs == rrwebData[k].events
      IN \A j \in 1..Len(evs) :
           evs[j].type = "Navigate" =>
             LET loops == {n \in MomentsOf("NavigationLoop") :
                             origin[n].s = k /\ origin[n].i = j}
                 count == Cardinality(NavigationsToSameUrl(evs, j))
             IN /\ (loops # {}) <=> (count >= 3)
                /\ \A n \in loops : keyMoments[n].frequency = count

\* ------------------------------------------------------------------------
\* Inputs: a run of Scroll events 100 ms apart with two longer gaps
\* ------------------------------------------------------------------------
MaxScrolls == 15

\* the gap after the first Scroll: with 4400 and six gaps of 100 the first
\* Scroll is exactly 5000 ms before the 8th
ScrollFirstGaps == {100, 4399, 4400}

ScrollShapes ==
  [count : 1..MaxScrolls,
   firstGap : ScrollFirstGaps,
   pauseAfter : 0..MaxScrolls,
   clickAfter : {0, 3}]

\* the time of the k-th Scroll; a pause of 6000 ms follows Scroll pauseAfter
ScrollTime(sh, k) ==
  IF k = 1 THEN 0
  ELSE sh.firstGap + 100 * (k - 2) + (IF sh.pauseAfter \in 1..(k - 1) THEN 6000 ELSE 0)

ScrollEvents(sh) ==
  LET scrolls == [k \in 1..sh.count |-> ScrollRecord(ScrollTime(sh, k))]
      click == MouseRecord(ScrollTime(sh, sh.clickAfter) + 50,
                           MouseInteractionType_Click,
                           Target(Some("BUTTON"), None, None), Some(10), Some(10))
  IN IF sh.clickAfter \in 1..(sh.count - 1)
       THEN SubSeq(scrolls, 1, sh.clickAfter) \o <<click>>
              \o SubSeq(scrolls, sh.clickAfter + 1, sh.count)
     ELSE scrolls

InitScroll ==
  \E sh \in ScrollShapes :
    Start(File(<<Session(Some("s1"), ScrollEvents(sh))>>), <<>>)

SpecScroll == InitScroll /\ [][Next]_vars

\* ------------------------------------------------------------------------
\* Properties: rapid scrolling
\* ------------------------------------------------------------------------
IsScroll(e) ==
  /\ e.type = "IncrementalSnapshot"
  /\ D(e).incrementalType = Some("Scroll")

\* the Scroll events of evs among the indices lo..hi
ScrollsIn(evs, lo, hi) == {j \in lo..hi : IsScroll(evs[j])}

\* the indices at which a RapidScrolling moment of session k was pushed
RapidScrollingAt(k) ==
  {origin[n].i : n \in {m \in MomentsOf("RapidScrolling") : origin[m].s = k}}

\* the 2 largest elements of the set S of indices (all of S when it is smaller)
TwoMostRecent(S) ==
  {j \in S : Cardinality({h \in S : h > j}) < 2}

\* the queue the detector holds when it looks at the Scroll event j: the
\* Scroll events up to j, cut back to the 2 most recent ones at the last
\* RapidScrolling moment before j
RetainedQueue(k, j) ==
  LET evs == rrwebData[k].events
      before == {h \in RapidScrollingAt(k) : h < j}
  IN IF before = {} THEN ScrollsIn(evs, 1, j)
     ELSE LET last == CHOOSE h \in before : \A g \in before : g <= h
          IN TwoMostRecent(ScrollsIn(evs, 1, last)) \cup ScrollsIn(evs, last + 1, j)

\* C16: RapidScrolling is emitted at a Scroll event at time t exactly when
\* the retained scroll queue holds at least 8 Scroll events with timestamp
\* > t-5000; after an emission the queue keeps only the 2 most recent Scroll
\* events, so between two RapidScrolling moments of one session at least 6
\* further Scroll events occur
C16_RapidScrollingOnRetainedQueue ==
  pc = "done" =>
    \A k \in 1..Len(rrwebData) :
      LET evs == rrwebData[k].events
      IN /\ \A j \in ScrollsIn(evs, 1, Len(evs)) :
              LET recent == {h \in RetainedQueue(k, j) :
                               evs[h].timestamp > evs[j].timestamp - 5000}
              IN /\ (j \in RapidScrollingAt(k)) <=> (Cardinality(recent) >= 8)
                 /\ \A n \in MomentsOf("RapidScrolling") :
                      (origin[n].s = k /\ origin[n].i = j)
                        => keyMoments[n].scrollCount = Cardinality(recent)
         /\ \A a, b \in RapidScrollingAt(k) :
              a < b => Cardinality(ScrollsIn(evs, a + 1, b)) >= 6
         /\ RapidScrollingAt(k) \subseteq ScrollsIn(evs, 1, Len(evs))

\* the scan is over and the session got two RapidScrolling moments, the
\* second exactly 6 Scroll events after the first
C16_Witness ==
  /\ pc = "done"
  /\ Len(rrwebData) = 1
  /\ \E a, b \in RapidScrollingAt(1) :
       /\ a < b
       /\ Cardinality(ScrollsIn(rrwebData[1].events, a + 1, b)) = 6

\* ------------------------------------------------------------------------
\* Inputs: MouseMove samples at a few positions, 3000 or 3001 ms apart
\* ------------------------------------------------------------------------
MaxMoves == 3

Sample(x, y) == Some(<<[x |-> Some(x), y |-> Some(y)]>>)

\* no positions, (0,0), a point, a point 29 px from it on both axes, a point
\* 30 px from it on the x axis
MoveSamples == {None, Sample(0, 0), Sample(10, 10), Sample(39, 39), Sample(40, 10)}

MoveGaps == {3000, 3001}

MoveSteps == [sample : MoveSamples, gap : MoveGaps]

RECURSIVE MoveTime(_, _)
MoveTime(steps, k) == IF k = 0 THEN 1000 ELSE MoveTime(steps, k - 1) + steps[k].gap

\* a first sample at t = 1000, then samples after the gaps
MoveEvents(first, steps) ==
  <<MouseMoveEvent(1000, first)>>
    \o [k \in 1..Len(steps) |-> MouseMoveEvent(MoveTime(steps, k), steps[k].sample)]

InitMove ==
  \E first \in MoveSamples :
    \E steps \in SeqsUpTo(MoveSteps, MaxMoves - 1) :
      StartSync(<<ProcessedSession("s1", MoveEvents(first, steps))>>, <<>>)

SpecMove == InitMove /\ [][NextSync]_vars

\* ------------------------------------------------------------------------
\* Properties: mouse hovering
\* ------------------------------------------------------------------------
IsMouseMove(e) ==
  /\ e.type = "IncrementalSnapshot"
  /\ D(e).incrementalType = Some("MouseMove")

\* the MouseMove events of evs up to index j
MovesUpTo(evs, j) == {h \in 1..j : IsMouseMove(evs[h])}

\* the last 3 of them, oldest first (defined when there are at least 3)
LastThreeMoves(evs, j) ==
  LET S == MovesUpTo(evs, j)
      T == {h \in S : Cardinality({g \in S : g > h}) < 3}
      a == CHOOSE h \in T : \A g \in T : h <= g
      c == CHOOSE h \in T : \A g \in T : g <= h
      b == CHOOSE h \in T : h # a /\ h # c
  IN <<a, b, c>>

\* the sampled point of a MouseMove event, (0,0) when it carries none
SampleX(e) ==
  IF D(e).positions = None \/ D(e).positions = Some(<<>>) THEN 0
  ELSE Val(Val(D(e).positions)[1].x)

SampleY(e) ==
  IF D(e).positions = None \/ D(e).positions = Some(<<>>) THEN 0
  ELSE Val(Val(D(e).positions)[1].y)

\* the sample is exactly (0,0) or the event lacks a position
ZeroSample(e) == SampleX(e) = 0 /\ SampleY(e) = 0

\* strictly less than 30 px apart on each axis
PerAxisWithin30(e1, e2) ==
  /\ Abs(SampleX(e1) - SampleX(e2)) < 30
  /\ Abs(SampleY(e1) - SampleY(e2)) < 30

\* the last 3 samples at j: each is within 30 px of the one before it
GroupWithinRange(evs, j) ==
  LET g == LastThreeMoves(evs, j)
  IN /\ PerAxisWithin30(evs[g[2]], evs[g[1]])
     /\ PerAxisWithin30(evs[g[3]], evs[g[2]])

\* at least 3 MouseMove events up to j, the last more than 3000 ms after the
\* one before it
HoverChecked(evs, j) ==
  /\ IsMouseMove(evs[j])
  /\ Cardinality(MovesUpTo(evs, j)) >= 3
  /\ evs[j].timestamp - evs[LastThreeMoves(evs, j)[2]].timestamp > 3000

\* a MouseHovering moment of session k was pushed at event j
HoveringAt(k, j) ==
  \E n \in MomentsOf("MouseHovering") : origin[n].s = k /\ origin[n].i = j

C18_DiscardedOnlyWhenAllZero ==
  /\ pc = "done" =>
       \A k \in 1..Len(rrwebData) :
         LET evs == rrwebData[k].events
         IN \A j \in 1..Len(evs) :
              (/\ HoverChecked(evs, j)
               /\ \E h \in Range(LastThreeMoves(evs, j)) : ~ZeroSample(evs[h])
               /\ GroupWithinRange(evs, j))
                => HoveringAt(k, j)
  /\ \A n \in MomentsOf("MouseHovering") :
       keyMoments[n].position # [x |-> Some(0), y |-> Some(0)]

\* C18 (amended): hover samples are discarded as invalid when any of the last
\* 3 MouseMove samples is exactly (0,0) or lacks a position; a group is
\* evaluated for MouseHovering exactly when none of its 3 samples is (0,0),
\* and no MouseHovering moment ever reports position (0,0)
C18_DiscardedWhenAnyZero ==
  /\ pc = "done" =>
       \A k \in 1..Len(rrwebData) :
         LET evs == rrwebData[k].events
         IN \A j \in 1..Len(evs) :
              HoverChecked(evs, j) =>
                (HoveringAt(k, j) <=>
                   /\ \A h \in Range(LastThreeMoves(evs, j)) : ~ZeroSample(evs[h])
                   /\ GroupWithinRange(evs, j))
  /\ \A n \in MomentsOf("MouseHovering") :
       keyMoments[n].position # [x |-> Some(0), y |-> Some(0)]

\* the scan is over: the third sample came 3001 ms after the second, the
\* three are within range of each other, one of them is (0,0) or missing and
\* the others are not, and no MouseHovering was pushed
C18_Witness ==
  /\ pc = "done"
  /\ Len(rrwebData) = 1
  /\ LET evs == rrwebData[1].events
     IN /\ Len(evs) = 3
        /\ HoverChecked(evs, 3)
        /\ GroupWithinRange(evs, 3)
        /\ ZeroSample(evs[1])
        /\ ~ZeroSample(evs[2])
        /\ ~ZeroSample(evs[3])
        /\ ~HoveringAt(1, 3)

\* ------------------------------------------------------------------------
\* Inputs: mouse interactions on a submit button, filler events, a submit click
\* ------------------------------------------------------------------------
MaxPriorEvents == 2

\* Click on the submit button, Click on an element with a `resend` class,
\* MouseDown and MouseUp on the submit button, Click on a plain DIV
PriorKinds == {"click", "classclick", "mousedown", "mouseup", "plain"}

\* with 5000 the event before is 5000 ms earlier: two such gaps and the final
\* gap of 5000 put an event exactly 10000 ms before the final click
PriorGaps == {100, 5000}

PriorSteps == [kind : PriorKinds, gap : PriorGaps]

\* numbers of MouseMove events right before the final click: with 18 the
\* two events before them are the 20th and 19th before the click, with 19
\* the 21st and 20th
SubmitFillers == {0, 18, 19}

PriorRecord(kind, ts) ==
  CASE kind = "click" -> MouseRecord(ts, MouseInteractionType_Click, SubmitButton,
                                     Some(10), Some(10))
    [] kind = "classclick" ->
         MouseRecord(ts, MouseInteractionType_Click,
                     Target(Some("DIV"), Some(<<"r", "e", "s", "e", "n", "d">>), None),
                     Some(10), Some(10))
    [] kind = "mousedown" -> MouseRecord(ts, MouseInteractionType_MouseDown,
                                         SubmitButton, Some(10), Some(10))
    [] kind = "mouseup" -> MouseRecord(ts, MouseInteractionType_MouseUp,
                                       SubmitButton, Some(10), Some(10))
    [] kind = "plain" -> MouseRecord(ts, MouseInteractionType_Click, Div,
                                     Some(10), Some(10))

RECURSIVE PriorTime(_, _)
\* the time of prior event k: the first at t = 0, the gaps on the later ones
PriorTime(steps, k) == IF k <= 1 THEN 0 ELSE PriorTime(steps, k - 1) + steps[k].gap

SubmitEvents(steps, fillers) ==
  LET last == PriorTime(steps, Len(steps))
  IN [k \in 1..Len(steps) |-> PriorRecord(steps[k].kind, PriorTime(steps, k))]
       \o [k \in 1..fillers |-> MoveRecord(last + 4000 + k)]
       \o <<PriorRecord("click", last + 5000)>>

InitSubmit ==
  \E steps \in SeqsUpTo(PriorSteps, MaxPriorEvents) :
    \E fillers \in SubmitFillers :
      Start(File(<<Session(Some("s1"), SubmitEvents(steps, fillers))>>), <<>>)

SpecSubmit == InitSubmit /\ [][Next]_vars

\* ------------------------------------------------------------------------
\* Properties: multiple submissions
\* ------------------------------------------------------------------------
\* a Click (not a MouseDown, MouseUp or Focus) on a submit-style element
SubmitStyleClick(e) ==
  /\ e.type = "IncrementalSnapshot"
  /\ D(e).incrementalType = Some("MouseInteraction")
  /\ D(e).interactionType = Some("Click")
  /\ e.element # None
  /\ IsSubmitStyle(Val(e.element))

\* the submit-style clicks among the indices lo..(j-1) that are less than
\* 10000 ms before event j
PriorSubmitClicks(evs, lo, j) ==
  {k \in lo..(j - 1) :
     /\ SubmitStyleClick(evs[k])
     /\ evs[k].timestamp > evs[j].timestamp - 10000}

\* a MultipleSubmissions moment of session k was pushed at event j
SubmissionsAt(k, j) ==
  \E n \in MomentsOf("MultipleSubmissions") : origin[n].s = k /\ origin[n].i = j

\* C19: a MultipleSubmissions moment is emitted at a submit click only if at
\* least 2 earlier click events on submit-style elements occurred within the
\* preceding 10000 ms; MouseDown, MouseUp, Focus or other non-click mouse
\* interactions on the submit element do not count as prior submissions, and
\* count equals the number of prior submit clicks plus 1
C19_SubmissionsCountPriorClicksOnly ==
  \A n \in MomentsOf("MultipleSubmissions") :
    LET evs == EventsOf(n)
        j == origin[n].i
        prior == PriorSubmitClicks(evs, 1, j)
    IN /\ SubmitStyleClick(evs[j])
       /\ Cardinality(prior) >= 2
       /\ keyMoments[n].count = Cardinality(prior) + 1

\* C20 as stated: whenever a submit-style click is preceded by at least 2
\* submit-style clicks with timestamps within the previous 10000 ms, a
\* MultipleSubmissions moment is emitted for it, however many other events
\* lie between those clicks
C20_SubmissionsHoweverManyBetween ==
  pc = "done" =>
    \A k \in 1..Len(rrwebData) :
      LET evs == rrwebData[k].events
      IN \A j \in 1..Len(evs) :
           (/\ SubmitStyleClick(evs[j])
            /\ Cardinality(PriorSubmitClicks(evs, 1, j)) >= 2)
             => SubmissionsAt(k, j)

\* C20 (amended): whenever a submit-style click is preceded by at least 2
\* submit-style clicks that are less than 10000 ms before it and among the
\* 20 events right before it, a MultipleSubmissions moment is emitted for it
C20_SubmissionsWithinTwentyEvents ==
  pc = "done" =>
    \A k \in 1..Len(rrwebData) :
      LET evs == rrwebData[k].events
      IN \A j \in 1..Len(evs) :
           (/\ SubmitStyleClick(evs[j])
            /\ Cardinality(PriorSubmitClicks(evs, Max(1, j - 20), j)) >= 2)
             => SubmissionsAt(k, j)

\* the scan is over: two submit-style clicks were the 20th and 19th event
\* before a third one, 18 MouseMove events lay between, and the
\* MultipleSubmissions moment was pushed at the third
C20_Witness ==
  /\ pc = "done"
  /\ Len(rrwebData) = 1
  /\ LET evs == rrwebData[1].events
     IN /\ Len(evs) = 21
        /\ SubmitStyleClick(evs[21])
        /\ PriorSubmitClicks(evs, 1, 21) = {1, 2}
        /\ SubmissionsAt(1, 21)

\* ------------------------------------------------------------------------
\* Inputs: Meta, Scroll and Navigate events in any order
\* ------------------------------------------------------------------------
\* a processed Meta event
MetaEvent(ts, href, width, height) ==
  [timestamp |-> ts,
   type |-> "Meta",
   details |-> Some([NoDetails EXCEPT !.href = href,
                                      !.width = width,
                                      !.height = height]),
   url |-> href,
   element |-> None]

\* a processed Scroll event with its horizontal offset
ScrollEvent(ts, x) ==
  [timestamp |-> ts,
   type |-> "IncrementalSnapshot",
   details |-> Some([NoDetails EXCEPT !.incrementalType = Some("Scroll"),
                                      !.x = x]),
   url |-> None,
   element |-> None]

MaxViewportEvents == 3

ViewportKinds ==
  {"meta767", "meta768", "metaNoHeight", "scroll0", "scroll5", "scrollLeft",
   "scrollNoX", "navA", "navB"}

ViewportEvent(kind, ts) ==
  CASE kind = "meta767" -> MetaEvent(ts, Some("/m"), Some(767), Some(600))
    [] kind = "meta768" -> MetaEvent(ts, Some("/m"), Some(768), Some(600))
    [] kind = "metaNoHeight" -> MetaEvent(ts, Some("/m"), Some(767), None)
    [] kind = "scroll0" -> ScrollEvent(ts, Some(0))
    [] kind = "scroll5" -> ScrollEvent(ts, Some(5))
    [] kind = "scrollLeft" -> ScrollEvent(ts, Some(0 - 5))
    [] kind = "scrollNoX" -> ScrollEvent(ts, None)
    [] kind = "navA" -> NavigateEvent(ts, Some("/a"), Some("/a"))
    [] kind = "navB" -> NavigateEvent(ts, Some("/b"), Some("/b"))

ViewportEvents(kinds) == [k \in 1..Len(kinds) |-> ViewportEvent(kinds[k], Stamped(0, k))]

InitViewport ==
  \E kinds \in SeqsUpTo(ViewportKinds, MaxViewportEvents) :
    StartSync(<<ProcessedSession("s1", ViewportEvents(kinds))>>, <<>>)

SpecViewport == InitViewport /\ [][NextSync]_vars

\* ------------------------------------------------------------------------
\* Properties: horizontal scrolling on a narrow viewport
\* ------------------------------------------------------------------------
\* the Meta events of evs that report a viewport (a width and a height)
ViewportReports(evs) ==
  {j \in 1..Len(evs) :
     /\ evs[j].type = "Meta"
     /\ D(evs[j]).width \notin {None, Some(0)}
     /\ D(evs[j]).height \notin {None, Some(0)}}

\* a HorizontalScrollMobile moment of session k was pushed at event j
HorizontalScrollAt(k, j) ==
  \E n \in MomentsOf("HorizontalScrollMobile") : origin[n].s = k /\ origin[n].i = j

\* C21: a HorizontalScrollMobile moment is emitted for a Scroll event if and
\* only if the viewport width reported for the session is below 768 px and
\* the event's horizontal offset is nonzero
C21_HorizontalScrollIffNarrowAndOffset ==
  pc = "done" =>
    \A k \in 1..Len(rrwebData) :
      LET evs == rrwebData[k].events
      IN \A j \in 1..Len(evs) :
           IsScroll(evs[j]) =>
             (HorizontalScrollAt(k, j) <=>
                /\ \E m \in ViewportReports(evs) :
                     /\ \A h \in ViewportReports(evs) : h <= m
                     /\ Val(D(evs[m]).width) < 768
                /\ D(evs[j]).x \notin {None, Some(0)})

\* ------------------------------------------------------------------------
\* Inputs: sessions of 9999 or 10000 ms with up to three navigations
\* ------------------------------------------------------------------------
MaxShortNavigations == 3

ShortSteps == [href : NavigationUrls, hasHref : BOOLEAN]

ShortDurations == {9999, 10000}

\* the first event is not at time 0, so that a duration differs from an end time
ShortStart == 500

ShortEvents(steps, duration) ==
  [k \in 1..Len(steps) |->
     NavigateEvent(Stamped(ShortStart, k - 1),
                   IF steps[k].hasHref THEN Some(steps[k].href) ELSE None,
                   Some(steps[k].href))]
  \o <<ScrollEvent(ShortStart + duration, None)>>

InitShort ==
  \E steps \in SeqsUpTo(ShortSteps, MaxShortNavigations), duration \in ShortDurations :
    StartSync(<<ProcessedSession("s1",
                                 IF Len(steps) = 0
                                   THEN <<ScrollEvent(ShortStart, None)>>
                                        \o ShortEvents(steps, duration)
                                   ELSE ShortEvents(steps, duration))>>, <<>>)

SpecShort == InitShort /\ [][NextSync]_vars

\* ------------------------------------------------------------------------
\* Properties: short sessions
\* ------------------------------------------------------------------------
\* the ShortSession moments of session k
ShortSessionsOf(k) == {n \in MomentsOf("ShortSession") : origin[n].s = k}

\* the Navigate events of a session that carry a destination
NavigationsIn(evs) ==
  {j \in 1..Len(evs) : IsNavigate(evs[j]) /\ D(evs[j]).href \notin {None, Some("")}}

C22_WitnessTenSeconds ==
  /\ pc = "done"
  /\ rrwebData[1].metadata.duration = 10000
  /\ Cardinality(NavigationsIn(rrwebData[1].events)) <= 2
  /\ ShortSessionsOf(1) = {}

\* ------------------------------------------------------------------------
\* Inputs: events without a details map among well-formed ones
\* ------------------------------------------------------------------------
\* an event that lacks the details map
NoDetailsEvent(ts, type) ==
  [timestamp |-> ts, type |-> type, details |-> None, url |-> None, element |-> None]

\* a Canvas mutation that carries an error
CanvasErrorEvent(ts) ==
  [timestamp |-> ts,
   type |-> "IncrementalSnapshot",
   details |-> Some([NoDetails EXCEPT !.incrementalType = Some("Canvas"),
                                      !.error = Some("boom")]),
   url |-> None,
   element |-> None]

MaxMalformedEvents == 3

MalformedKinds == {"scroll5", "canvasError", "noDetailsIncremental", "noDetailsCustom"}

MalformedEvent(kind, ts) ==
  CASE kind = "scroll5" -> ScrollEvent(ts, Some(5))
    [] kind = "canvasError" -> CanvasErrorEvent(ts)
    [] kind = "noDetailsIncremental" -> NoDetailsEvent(ts, "IncrementalSnapshot")
    [] kind = "noDetailsCustom" -> NoDetailsEvent(ts, "Custom")

InitMalformed ==
  \E kinds \in SeqsUpTo(MalformedKinds, MaxMalformedEvents) :
    StartSync(<<ProcessedSession("s1",
                  [k \in 1..Len(kinds) |-> MalformedEvent(kinds[k], Stamped(0, k))])>>,
              <<>>)

SpecMalformed == InitMalformed /\ [][NextSync]_vars

\* ------------------------------------------------------------------------
\* Properties: a malformed event in the middle of a session
\* ------------------------------------------------------------------------
\* a well-formed event that yields a moment by itself: a Canvas error, or a
\* horizontal scroll in a session that reports no viewport
YieldsMoment(e) ==
  /\ e.details # None
  /\ e.type = "IncrementalSnapshot"
  /\ \/ D(e).incrementalType = Some("Canvas") /\ D(e).error # None
     \/ D(e).incrementalType = Some("Scroll") /\ D(e).x = Some(5)

\* C23: when extractKeyMoments meets a malformed event (one without a details
\* map) in the middle of a session it skips that event and continues: the
\* extraction is not abandoned, and the moments of the well-formed events
\* before and after the malformed one are all returned
C23_MalformedEventSkipped ==
  /\ pc # "threw"
  /\ pc = "done" =>
       \A k \in 1..Len(rrwebData) :
         \A j \in 1..Len(rrwebData[k].events) :
           YieldsMoment(rrwebData[k].events[j]) =>
             \E n \in 1..Len(keyMoments) : origin[n].s = k /\ origin[n].i = j

\* ------------------------------------------------------------------------
\* Properties: a moment depends on the events up to its trigger only
\* ------------------------------------------------------------------------
\* a moment without its context
WithoutContext(m) == [f \in DOMAIN m \ {"context"} |-> m[f]]

\* the moments of c triggered by event j of session k, context left out
TriggeredAt(c, k, j) ==
  LET at == SelectSeq([n \in 1..Len(c.km) |-> n],
                      LAMBDA n : c.og[n].s = k /\ c.og[n].i = j)
  IN [n \in 1..Len(at) |-> WithoutContext(c.km[at[n]])]

\* session k cut behind its event j
CutBehind(k, j) ==
  [rrwebData[k] EXCEPT !.events = SubSeq(rrwebData[k].events, 1, j)]

\* C28: every field other than context of a moment triggered by the event at
\* index i (its url and, for HorizontalScrollMobile, its viewport included)
\* is determined by events[0..i] alone: the session and the session cut
\* behind event i, which agree on their first i+1 events, produce the same
\* moment for event i, whatever Navigate or Meta events follow
C28_MomentDeterminedByPrefix ==
  pc = "done" =>
    \A k \in 1..Len(rrwebData) :
      \A j \in 1..Len(rrwebData[k].events) :
        TriggeredAt([km |-> keyMoments, og |-> origin], k, j)
          = TriggeredAt(ExtractSession([t |-> IdleTrack, km |-> <<>>, og |-> <<>>],
                                       CutBehind(k, j), k),
                        k, j)

\* ------------------------------------------------------------------------
\* Inputs: two sessions, the first of which leaves detector state behind
\* ------------------------------------------------------------------------
MaxResetEvents == 2

ResetKinds == {"meta768", "scroll5", "navA"}

ResetSession(id, kinds, from) ==
  ProcessedSession(id, [k \in 1..Len(kinds) |-> ViewportEvent(kinds[k], Stamped(from, k))])

InitReset ==
  \E first \in SeqsUpTo(ResetKinds, MaxResetEvents),
     second \in SeqsUpTo(ResetKinds, MaxResetEvents) :
    StartSync(<<ResetSession("s1", first, 0), ResetSession("s2", second, 1000)>>, <<>>)

SpecReset == InitReset /\ [][NextSync]_vars

\* ------------------------------------------------------------------------
\* Properties: the detector state is reset at the start of each session
\* ------------------------------------------------------------------------
\* C29: detector state is reset at the start of each session: the moments
\* produced for the session list [A, B] are exactly the moments produced for
\* [A] followed by the moments produced for [B]
C29_MomentsOfListAreConcatenation ==
  (pc = "done" /\ Len(rrwebData) = 2) =>
    keyMoments = extractKeyMoments(<<rrwebData[1]>>) \o extractKeyMoments(<<rrwebData[2]>>)

\* session A reported a viewport of 768 px and navigated to /a; session B
\* reports nothing and scrolls sideways: its moment shows neither
C29_Witness ==
  /\ pc = "done"
  /\ Len(rrwebData) = 2
  /\ \E j \in 1..Len(rrwebData[1].events) : rrwebData[1].events[j].type = "Meta"
  /\ \E j \in 1..Len(rrwebData[1].events) : rrwebData[1].events[j].type = "Navigate"
  /\ \E n \in MomentsOf("HorizontalScrollMobile") :
       /\ origin[n].s = 2
       /\ keyMoments[n].viewport.width = 0
       /\ keyMoments[n].url = ""

\* ------------------------------------------------------------------------
\* Inputs: PostHog events around a moment
\* ------------------------------------------------------------------------
MaxPosthogEvents == 3

\* the time of the one click of the session, and so of its moments
JoinMomentTimes == {1000, 40000}

\* 1000, 1150, 10000, 10001, 30999, 31000, 31001 ms and a string that is no date
JoinStamps ==
  {Iso(1, 0), Iso(1, 150), Iso(10, 0), Iso(10, 1), Iso(30, 999), Iso(31, 0),
   Iso(31, 1), NotADate}

InitJoin ==
  \E ts \in JoinMomentTimes :
    \E p \in PostHogLists(JoinStamps, MaxPosthogEvents) :
      Start(File(<<Session(Some("s1"),
                           <<MouseRecord(ts, MouseInteractionType_Click, Div,
                                         Some(10), Some(10))>>)>>),
            p)

SpecJoin == InitJoin /\ [][Next]_vars

\* ------------------------------------------------------------------------
\* Properties: the join
\* ------------------------------------------------------------------------
\* the correlated moments and the normalized PostHog events returned
Synced == Val(syncResult).rrwebKeyMoments

Normalized == Val(syncResult).posthogEvents

\* |e.normalizedTimestamp - m.timestamp|, for a timestamp that is a number
Distance(e, m) ==
  IF Val(e.normalizedTimestamp) >= m.timestamp
    THEN Val(e.normalizedTimestamp) - m.timestamp
  ELSE m.timestamp - Val(e.normalizedTimestamp)

\* the PostHog event with this id is in the nearby list of moment m
Attached(id, m) ==
  \E k \in 1..Len(m.nearbyPosthogEvents) : m.nearbyPosthogEvents[k].id = id

\* C2: for every moment m and every external event e, e is in m's nearby
\* list if and only if |e.normalizedTimestamp - m.timestamp| < 30000, and
\* nothing caps the number of events attached to one moment
C2_AttachedIffWithinWindow ==
  syncResult # None =>
    \A n \in 1..Len(Synced) :
      LET m == Synced[n]
          inWindow == {k \in 1..Len(Normalized) :
                         /\ Normalized[k].normalizedTimestamp # None
                         /\ Distance(Normalized[k], m) < 30000}
      IN /\ \A k \in 1..Len(Normalized) :
              Attached(Normalized[k].id, m) <=> k \in inWindow
         /\ Len(m.nearbyPosthogEvents) = Cardinality(inWindow)

\* a moment with an event 29999 ms away attached and an event 30000 ms away
\* left out
C2_Witness ==
  /\ syncResult # None
  /\ \E n \in 1..Len(Synced) :
       /\ \E k \in 1..Len(Normalized) :
            /\ Normalized[k].normalizedTimestamp # None
            /\ Distance(Normalized[k], Synced[n]) = 29999
            /\ Attached(Normalized[k].id, Synced[n])
       /\ \E k \in 1..Len(Normalized) :
            /\ Normalized[k].normalizedTimestamp # None
            /\ Distance(Normalized[k], Synced[n]) = 30000
            /\ ~Attached(Normalized[k].id, Synced[n])

\* C3: for every correlated moment, the attached external events are ordered
\* by non-decreasing absolute temporal distance from the moment
C3_NearbySortedByDistance ==
  syncResult # None =>
    \A n \in 1..Len(Synced) :
      LET near == Synced[n].nearbyPosthogEvents
      IN \A k \in 1..(Len(near) - 1) :
           Distance(near[k], Synced[n]) <= Distance(near[k + 1], Synced[n])

\* a moment whose attached events the sort had to reorder: the event given
\* first is attached behind a nearer one
C3_Witness ==
  /\ syncResult # None
  /\ \E n \in 1..Len(Synced) :
       LET near == Synced[n].nearbyPosthogEvents
       IN /\ Len(near) >= 2
          /\ near[Len(near)].id = "e1"
          /\ Distance(near[1], Synced[n]) < Distance(near[Len(near)], Synced[n])

\* C4: every attached external event's relevanceScore (in hundredths) is
\* 1 - distance/30000 rounded to two decimal places, lies in [0,1], is 1 at
\* distance 0, is 0.00 at distance 29999, and is non-increasing along the
\* attached list
C4_RelevanceScore ==
  syncResult # None =>
    \A n \in 1..Len(Synced) :
      LET near == Synced[n].nearbyPosthogEvents
      IN /\ \A k \in 1..Len(near) :
              LET d == Distance(near[k], Synced[n])
                  score == near[k].relevanceScore
              IN /\ score \in 0..100
                 /\ Abs(300 * score - (30000 - d)) <= 150
                 /\ d = 0 => score = 100
                 /\ d = 29999 => score = 0
         /\ \A k \in 1..(Len(near) - 1) :
              near[k].relevanceScore >= near[k + 1].relevanceScore

\* a moment with attached events at distance 0, at a distance strictly
\* between, and at distance 29999
C4_Witness ==
  /\ syncResult # None
  /\ \E n \in 1..Len(Synced) :
       LET near == Synced[n].nearbyPosthogEvents
       IN /\ Len(near) = 3
          /\ Distance(near[1], Synced[n]) = 0
          /\ near[2].relevanceScore = 70
          /\ Distance(near[3], Synced[n]) = 29999

\* ------------------------------------------------------------------------
\* Inputs: unsorted records
\* ------------------------------------------------------------------------
MaxSortEvents == 4

SortTimes == {10, 20, 30}

Markers == <<"a", "b", "c", "d", "e", "f">>

\* Custom records with the given timestamps, told apart by their payload
MarkedEvents(times) == [k \in 1..Len(times) |-> CustomRecord(times[k], Markers[k])]

\* the events cut into two records after the first `cut`, behind a record
\* without an events array
SplitSession(events, cut) ==
  [sessionId |-> Some("s1"),
   records |-> Some(<<[events |-> None],
                      [events |-> Some(SubSeq(events, 1, cut))],
                      [events |-> Some(SubSeq(events, cut + 1, Len(events)))]>>)]

\* a second session, to see that sessions are not mixed
OtherSession == Session(Some("s2"), <<CustomRecord(15, "z")>>)

InitSort ==
  \E times \in SeqsUpTo(SortTimes, MaxSortEvents) :
    \E cut \in 0..Len(times) :
      Start(File(<<SplitSession(MarkedEvents(times), cut), OtherSession>>), <<>>)

SpecSort == InitSort /\ [][Next]_vars

\* ------------------------------------------------------------------------
\* Properties: the order of a session's events
\* ------------------------------------------------------------------------
\* the raw events of session k of the file, record after record
RawEvents(k) == AllEvents(Val(file.sessions)[k])

AtTime(events, ts) == SelectSeq(events, LAMBDA e : e.timestamp = ts)

\* C6: for every session returned by loadRRwebData, the events list is
\* non-decreasing in timestamp, holds exactly the events of all the
\* session's records, and events with equal timestamps keep their original
\* record order
C6_SortedStable ==
  pc # "load" =>
    \A k \in 1..Len(rrwebData) :
      LET events == rrwebData[k].events
          raw == RawEvents(k)
      IN /\ \A j \in 1..(Len(events) - 1) :
              events[j].timestamp <= events[j + 1].timestamp
         /\ Len(events) = Len(raw)
         /\ \A ts \in {raw[j].timestamp : j \in 1..Len(raw)} :
              AtTime(events, ts) =
                [j \in 1..Len(AtTime(raw, ts)) |-> processRRwebEvent(AtTime(raw, ts)[j])]

\* a session was loaded whose records were out of order and held two events
\* with one timestamp in different records
C6_Witness ==
  /\ pc # "load"
  /\ Len(rrwebData) = 2
  /\ LET raw == RawEvents(1)
         first == Val(Val(file.sessions)[1].records)[2].events
     IN /\ first # None
        /\ \E j \in 1..Len(raw) :
             \E k \in 1..Len(raw) :
               j < k /\ raw[j].timestamp > raw[k].timestamp
        /\ \E j \in 1..Len(raw) :
             \E k \in 1..Len(raw) :
               /\ j <= Len(Val(first))
               /\ k > Len(Val(first))
               /\ raw[j].timestamp = raw[k].timestamp

\* ------------------------------------------------------------------------
\* Inputs: sessions with and without events, with and without an id
\* ------------------------------------------------------------------------
MaxSessions == 2

SessionIds == <<"s1", "s2", "s3">>

\* a session has an id or none, and no records, a record without events, or
\* one click on a DIV
SessionShapes == [hasId : BOOLEAN, events : {"norecords", "empty", "click"}]

ShapedSession(shape, k) ==
  [sessionId |-> IF shape.hasId THEN Some(SessionIds[k]) ELSE None,
   records |->
     CASE shape.events = "norecords" -> None
       [] shape.events = "empty" -> Some(<<[events |-> Some(<<>>)]>>)
       [] OTHER -> Some(<<[events |-> Some(<<MouseRecord(1000 * k,
                                                         MouseInteractionType_Click,
                                                         Div, Some(10), Some(10))>>)]>>)]

InitSessions ==
  \E shapes \in SeqsUpTo(SessionShapes, MaxSessions) :
    \E p \in PostHogLists({Iso(1, 0)}, 1) :
      Start(File([k \in 1..Len(shapes) |-> ShapedSession(shapes[k], k)]), p)

SpecSessions == InitSessions /\ [][Next]_vars

\* the pipeline run twice on the same inputs
SpecTwice == InitSessions /\ [][NextTwice]_vars

\* ------------------------------------------------------------------------
\* Properties: one SessionMetrics per session, determinism
\* ------------------------------------------------------------------------
\* the moments that come from session k
MomentsFrom(k) == {n \in 1..Len(keyMoments) : origin[n].s = k}

\* C1: for every session passed to extractKeyMoments, including a session
\* whose event list is empty, the output contains exactly one SessionMetrics
\* moment carrying that sessionId; for an empty session it is the only
\* moment of that session and its clickCount, inputCount, pageViewCount,
\* errorCount and duration are all 0
C1_OneSessionMetricsPerSession ==
  pc = "done" =>
    \A k \in 1..Len(rrwebData) :
      LET metrics == {n \in MomentsFrom(k) :
                        /\ keyMoments[n].type = "SessionMetrics"
                        /\ keyMoments[n].sessionId = rrwebData[k].sessionId}
      IN /\ Cardinality(metrics) = 1
         /\ Len(rrwebData[k].events) = 0 =>
              /\ MomentsFrom(k) = metrics
              /\ \A n \in metrics :
                   /\ keyMoments[n].clickCount = 0
                   /\ keyMoments[n].inputCount = 0
                   /\ keyMoments[n].pageViewCount = 0
                   /\ keyMoments[n].errorCount = 0
                   /\ keyMoments[n].duration = 0

\* C5: running the pipeline twice on the same raw records and the same
\* external events produces identical output, including the sessionId of
\* every moment, also when a raw session carries no sessionId
C5_SameOutputTwice ==
  (run = 2 /\ pc = "done") => syncResult = firstResult

\* ------------------------------------------------------------------------
\* Inputs: raw records of an unknown type or without a data payload
\* ------------------------------------------------------------------------
MaxRawRecords == 2

\* a record type that eventTypeMap does not list
UnlistedType == 99

RawKinds == {"click", "unlistedNoData", "unlistedWithData", "incrementalNoData"}

RawRecord(kind, ts) ==
  CASE kind = "click" ->
         MouseRecord(ts, MouseInteractionType_Click, Div, Some(10), Some(10))
    [] kind = "unlistedNoData" ->
         [type |-> UnlistedType, timestamp |-> ts, data |-> None]
    [] kind = "unlistedWithData" ->
         [type |-> UnlistedType, timestamp |-> ts,
          data |-> Some([NoData EXCEPT !.value = Some("v")])]
    [] kind = "incrementalNoData" ->
         [type |-> RRwebEventType_IncrementalSnapshot, timestamp |-> ts,
          data |-> None]

RawSession(kinds, k) ==
  Session(Some(SessionIds[k]),
          [j \in 1..Len(kinds) |-> RawRecord(kinds[j], 1000 * k + 100 * j)])

RawKindLists == SeqsUpTo(RawKinds, MaxRawRecords) \ {<<>>}

InitRaw ==
  \E lists \in SeqsUpTo(RawKindLists, MaxSessions) :
    Start(File([k \in 1..Len(lists) |-> RawSession(lists[k], k)]), <<>>)

SpecRaw == InitRaw /\ [][Next]_vars

\* ------------------------------------------------------------------------
\* Properties: one malformed raw record
\* ------------------------------------------------------------------------
\* a record of an unknown type, or an incremental record without data
MalformedRecord(r) ==
  \/ r.type \notin 0..5
  \/ r.type = RRwebEventType_IncrementalSnapshot /\ r.data = None

\* C24: when loadRRwebData meets a malformed raw record (an unknown type, or
\* an incremental record whose data payload is missing), that record becomes
\* one event of kind Unknown with an empty details map, and every other
\* record of every session is still normalized and returned
C24_MalformedRecordBecomesUnknown ==
  pc # "load" =>
    /\ Len(rrwebData) = Len(Val(file.sessions))
    /\ \A k \in 1..Len(rrwebData) :
         LET raw == AllEvents(Val(file.sessions)[k])
             evs == rrwebData[k].events
         IN /\ Len(evs) = Len(raw)
            /\ \A j \in 1..Len(evs) :
                 /\ evs[j].timestamp = raw[j].timestamp
                 /\ IF MalformedRecord(raw[j])
                      THEN evs[j].type = "Unknown" /\ evs[j].details = Some(NoDetails)
                      ELSE evs[j].type = "IncrementalSnapshot" /\ evs[j].element # None

\* ------------------------------------------------------------------------
\* Inputs: files that are missing, are no JSON or hold no sessions list
\* ------------------------------------------------------------------------
InvalidFiles ==
  {[exists |-> FALSE, parses |-> FALSE, sessions |-> None],
   [exists |-> TRUE, parses |-> FALSE, sessions |-> None],
   [exists |-> TRUE, parses |-> TRUE, sessions |-> None]}

InitFiles ==
  \E f \in InvalidFiles
           \cup {File([k \in 1..Len(shapes) |-> ShapedSession(shapes[k], k)]) :
                   shapes \in SeqsUpTo(SessionShapes, MaxSessions)} :
    Start(f, <<>>)

SpecFiles == InitFiles /\ [][Next]_vars

\* ------------------------------------------------------------------------
\* Properties: structurally invalid input
\* ------------------------------------------------------------------------
\* C25: when the top-level input is structurally invalid (unparseable JSON,
\* or no sessions list), the outcome of loadRRwebData is distinguishable from
\* that of a valid input holding zero sessions
C25_InvalidInputDistinguishable ==
  (pc # "load" /\ InvalidFile(file)) => rrwebData # loadRRwebData(File(<<>>), <<>>)

\* ------------------------------------------------------------------------
\* Properties: start time, end time and duration of a session
\* ------------------------------------------------------------------------
\* the timestamps of the raw events of session k
RawTimes(k) == {RawEvents(k)[j].timestamp : j \in 1..Len(RawEvents(k))}

\* C26: metadata.startTime is the minimum event timestamp of the session and
\* metadata.endTime the maximum (both 0 when the session has no events), and
\* metadata.duration equals endTime - startTime and is never negative
C26_StartEndDuration ==
  pc # "load" =>
    \A k \in 1..Len(rrwebData) :
      LET m == rrwebData[k].metadata
      IN /\ IF RawTimes(k) = {}
              THEN m.startTime = 0 /\ m.endTime = 0
              ELSE /\ m.startTime \in RawTimes(k)
                   /\ m.endTime \in RawTimes(k)
                   /\ \A ts \in RawTimes(k) : m.startTime <= ts /\ ts <= m.endTime
         /\ m.duration = m.endTime - m.startTime
         /\ m.duration >= 0

\* a session whose records came latest first: 30, 20, 10
C26_Witness ==
  /\ pc # "load"
  /\ Len(RawEvents(1)) >= 3
  /\ RawEvents(1)[1].timestamp = 30
  /\ RawEvents(1)[Len(RawEvents(1))].timestamp = 10
  /\ rrwebData[1].metadata.startTime = 10
  /\ rrwebData[1].metadata.endTime = 30
  /\ rrwebData[1].metadata.duration = 20

\* a session without events has start, end and duration 0
C26_WitnessNoEvents ==
  /\ pc # "load"
  /\ RawEvents(1) = <<>>
  /\ rrwebData[1].metadata = [startTime |-> 0, endTime |-> 0, duration |-> 0,
                              url |-> "", userAgent |-> ""]

\* ------------------------------------------------------------------------
\* Inputs: Meta records with and without an href, Custom records with one
\* ------------------------------------------------------------------------
MaxMetaRecords == 3

MetaKinds == {"metaA", "metaB", "metaNoHref", "customHref"}

MetaTimes == {10, 20}

MetaSteps == [kind : MetaKinds, ts : MetaTimes]

MetaHrefRecord(ts, href) ==
  [type |-> RRwebEventType_Meta,
   timestamp |-> ts,
   data |-> Some([NoData EXCEPT !.href = href, !.userAgent = Some("ua")])]

MetaStepRecord(step) ==
  CASE step.kind = "metaA" -> MetaHrefRecord(step.ts, Some("/a"))
    [] step.kind = "metaB" -> MetaHrefRecord(step.ts, Some("/b"))
    [] step.kind = "metaNoHref" -> MetaHrefRecord(step.ts, None)
    [] step.kind = "customHref" ->
         [type |-> RRwebEventType_Custom,
          timestamp |-> step.ts,
          data |-> Some([NoData EXCEPT !.href = Some("/c")])]

InitMeta ==
  \E steps \in SeqsUpTo(MetaSteps, MaxMetaRecords) :
    Start(File(<<Session(Some("s1"),
                         [k \in 1..Len(steps) |-> MetaStepRecord(steps[k])])>>),
          <<>>)

SpecMeta == InitMeta /\ [][Next]_vars

\* ------------------------------------------------------------------------
\* Properties: the url of a session
\* ------------------------------------------------------------------------
\* the page-metadata and navigation events of evs that carry a url
UrlCarriers(evs) ==
  {j \in 1..Len(evs) :
     /\ evs[j].type \in {"Meta", "Navigate"}
     /\ evs[j].url \notin {None, Some("")}}

C27_WitnessNoUrl ==
  /\ pc # "load"
  /\ Len(rrwebData) = 1
  /\ Len(rrwebData[1].events) = 2
  /\ UrlCarriers(rrwebData[1].events) = {}
  /\ rrwebData[1].metadata.url = ""

\* ------------------------------------------------------------------------
\* Properties: the inputs are left as they were
\* ------------------------------------------------------------------------
\* C30: extractKeyMoments and syncWithPostHogEvents leave their inputs
\* unchanged: no step of either changes a session's events list (or anything
\* else of the sessions) or the list of external events
C30_InputsUnchanged ==
  [][pc # "load" => (rrwebData' = rrwebData /\ posthogEvents' = posthogEvents)]_vars

\* the join has sorted two nearby events into the reverse of the order they
\* have in the caller's list, and has added normalizedTimestamp to its copies
C30_Witness ==
  /\ pc = "done"
  /\ Len(posthogEvents) >= 2
  /\ "normalizedTimestamp" \notin DOMAIN posthogEvents[1]
  /\ \E n \in 1..Len(Synced) :
       LET near == Synced[n].nearbyPosthogEvents
       IN /\ Len(near) >= 2
          /\ near[1].id = posthogEvents[2].id
          /\ near[2].id = posthogEvents[1].id
          /\ Len(Synced[n].context) > 0

\* ------------------------------------------------------------------------
\* Properties: external events whose timestamp is no date
\* ------------------------------------------------------------------------
\* the caller's event k carries a timestamp that parses as a date
Parseable(k) == posthogEvents[k].timestamp.date = "1970-01-01"

\* epoch milliseconds of the ISO timestamp of the caller's event k
EpochMs(k) ==
  LET ts == posthogEvents[k].timestamp
  IN 3600000 * ts.h + 60000 * ts.mi + 1000 * ts.s + ts.ms

\* C31: syncWithPostHogEvents compares a moment's timestamp only with the
\* external event's timestamp normalized to epoch milliseconds; an external
\* event whose timestamp cannot be parsed is never attached to any moment and
\* does not stop the join of the other events
C31_UnparseableNeverAttached ==
  pc = "done" =>
    /\ syncResult # None
    /\ Len(Synced) = Len(keyMoments)
    /\ \A n \in 1..Len(Synced) :
         \A k \in 1..Len(posthogEvents) :
           IF Parseable(k)
             THEN Attached(posthogEvents[k].id, Synced[n])
                    <=> /\ EpochMs(k) - Synced[n].timestamp < 30000
                        /\ Synced[n].timestamp - EpochMs(k) < 30000
             ELSE ~Attached(posthogEvents[k].id, Synced[n])

\* the first event has no date for a timestamp, the second is 150 ms from a
\* moment at 1000 ms and attached to it
C31_Witness ==
  /\ pc = "done"
  /\ Len(posthogEvents) >= 2
  /\ ~Parseable(1)
  /\ Parseable(2)
  /\ \E n \in 1..Len(Synced) :
       /\ Synced[n].timestamp = 1000
       /\ EpochMs(2) = 1150
       /\ Attached(posthogEvents[2].id, Synced[n])
       /\ ~Attached(posthogEvents[1].id, Synced[n])

\* ------------------------------------------------------------------------
\* Functions called on their own
\* ------------------------------------------------------------------------
\* the pipeline is not running
PipelineIdle ==
  /\ file = [exists |-> FALSE, parses |-> FALSE, sessions |-> None]
  /\ posthogEvents = <<>>
  /\ rrwebData = <<>>
  /\ keyMoments = <<>>
  /\ origin = <<>>
  /\ track = IdleTrack
  /\ si = 1
  /\ i = 0
  /\ pc = "idle"
  /\ syncResult = None
  /\ run = 1
  /\ firstResult = None

pipeline == <<file, posthogEvents, rrwebData, keyMoments, origin, track, si, i, pc,
              syncResult, run, firstResult>>

\* getContextAroundEvent(events, currentIndex, windowSize); currentIndex is
\* the source's 0-based index
CallGetContextAroundEvent ==
  /\ call # None
  /\ Val(call).fn = "getContextAroundEvent"
  /\ result = None
  /\ result' = Some(getContextAroundEvent(Val(call).events,
                                          Val(call).currentIndex + 1,
                                          Val(call).windowSize))
  /\ UNCHANGED <<call, pipeline, sched>>

\* ------------------------------------------------------------------------
\* Inputs: event lists longer than the widest window, any index, and the
\* sessions that yield the kinds of moment that carry a context
\* ------------------------------------------------------------------------
MaxContextEvents == 23

WindowSizes == {3, 5, 10}

\* Scroll and MouseMove events in turn, 100 ms apart
ContextEvents(n) ==
  [k \in 1..n |->
     IF k % 2 = 1 THEN ScrollEvent(Stamped(0, k), Some(k))
     ELSE MouseMoveEvent(Stamped(0, k),
                         Some([q \in 1..4 |-> [x |-> Some(k), y |-> Some(q)]]))]

InitContextCall ==
  /\ PipelineIdle
  /\ SchedIdle
  /\ result = None
  /\ \E n \in 0..MaxContextEvents :
       \E currentIndex \in (0 - 1)..n, windowSize \in WindowSizes :
         call = Some([fn |-> "getContextAroundEvent",
                      events |-> ContextEvents(n),
                      currentIndex |-> currentIndex,
                      windowSize |-> windowSize])

\* 3 or 12 clicks on one spot, 100 or 400 ms apart
InitContextRage ==
  \E n \in {3, 12}, gap \in {100, 400} :
    Start(File(<<Session(Some("s1"),
                         [k \in 1..n |->
                            MouseRecord(gap * k, MouseInteractionType_Click, Div,
                                        Some(10), Some(10))])>>),
          <<>>)

InitContext ==
  \/ InitContextCall
  \/ InitContextRage
  \/ InitDead
  \/ InitPause
  \/ InitForm
  \/ InitScroll
  \/ InitMove
  \/ InitSubmit

NextContext == Next \/ CallGetContextAroundEvent

SpecContext == InitContext /\ [][NextContext]_vars

\* ------------------------------------------------------------------------
\* Properties: the context of a moment
\* ------------------------------------------------------------------------
\* the window size the claim gives for a kind of moment
WindowOf(kind) ==
  CASE kind \in {"RageClick", "RapidScrolling", "Hesitation"} -> 5
    [] kind \in {"DeadClick", "MouseHovering"} -> 3
    [] kind \in {"FormAbandonment", "MultipleSubmissions"} -> 10

\* ctx is the slice events[max(0, at-w) .. min(n-1, at+w)], `at` 0-based
IsWindow(ctx, events, at, w) ==
  LET first == Max(0, at - w)
      last == Min(Len(events) - 1, at + w)
  IN /\ Len(ctx) = last - first + 1
     /\ Len(ctx) <= 2 * w + 1
     /\ \A k \in 1..Len(ctx) :
          /\ ctx[k].timestamp = events[first + k].timestamp
          /\ ctx[k].type = events[first + k].type
          /\ ctx[k].element = events[first + k].element
     /\ \E k \in 1..Len(ctx) :
          first + k = at + 1 /\ ctx[k].timestamp = events[at + 1].timestamp

\* C32: the context of a moment triggered at event index i with window size w
\* is the contiguous slice events[max(0,i-w) .. min(n-1,i+w)]: it contains
\* the triggering event and has at most 2w+1 entries (w = 5 for RageClick,
\* RapidScrolling and Hesitation, 3 for DeadClick and MouseHovering, 10 for
\* FormAbandonment and MultipleSubmissions), and it is empty when the index
\* is out of range
C32_ContextIsWindow ==
  /\ \A n \in 1..Len(keyMoments) :
       (keyMoments[n].type \in {"RageClick", "RapidScrolling", "Hesitation",
                                "DeadClick", "MouseHovering", "FormAbandonment",
                                "MultipleSubmissions"}
          /\ origin[n].i >= 1) =>
         /\ "context" \in DOMAIN keyMoments[n]
         /\ IsWindow(keyMoments[n].context, rrwebData[origin[n].s].events,
                     origin[n].i - 1, WindowOf(keyMoments[n].type))
  /\ (call # None /\ result # None /\ Val(call).fn = "getContextAroundEvent") =>
       IF Val(call).currentIndex < 0
            \/ Val(call).currentIndex >= Len(Val(call).events)
         THEN Val(result) = <<>>
         ELSE IsWindow(Val(result), Val(call).events, Val(call).currentIndex,
                       Val(call).windowSize)

\* a call with 23 events, index 11 and window 10 returned 21 of them, and one
\* with window 3 at the last index returned 4
C32_Witness ==
  /\ call # None
  /\ result # None
  /\ Val(call).fn = "getContextAroundEvent"
  /\ Len(Val(call).events) = 23
  /\ \/ /\ Val(call).currentIndex = 11
        /\ Val(call).windowSize = 10
        /\ Len(Val(result)) = 21
     \/ /\ Val(call).currentIndex = 22
        /\ Val(call).windowSize = 3
        /\ Len(Val(result)) = 4

\* a call with an index behind the last event returned nothing
C32_WitnessOutOfRange ==
  /\ call # None
  /\ result = Some(<<>>)
  /\ Val(call).fn = "getContextAroundEvent"
  /\ Len(Val(call).events) = 5
  /\ Val(call).currentIndex = 5

\* a RapidScrolling moment in a session of 15 events carries 11 of them
C32_WitnessMoment ==
  \E n \in MomentsOf("RapidScrolling") :
    Len(rrwebData[origin[n].s].events) = 15 /\ Len(keyMoments[n].context) = 11

\* ------------------------------------------------------------------------
\* posthog.ts: groupEventsBySession
\* ------------------------------------------------------------------------
SESSION_TIMEOUT_MS == 30 * 60 * 1000

\* epoch milliseconds of the timestamp of a PostHog event; the events grouped
\* here all carry a timestamp that parses
EventTime(event) == Val(DateGetTime(event.timestamp))

\* place e behind every event whose time is <= the time of e
InsertByEventTime(sorted, e) ==
  LET k == Cardinality({j \in 1..Len(sorted) : EventTime(sorted[j]) <= EventTime(e)})
  IN SubSeq(sorted, 1, k) \o <<e>> \o SubSeq(sorted, k + 1, Len(sorted))

RECURSIVE SortByEventTime(_)
\* [...events].sort((a, b) => new Date(a.timestamp).getTime() - ...)
SortByEventTime(events) ==
  IF events = <<>> THEN <<>>
  ELSE InsertByEventTime(SortByEventTime(SubSeq(events, 1, Len(events) - 1)),
                         events[Len(events)])

RECURSIVE Digits(_)
\* the decimal digits of a number, as `${eventTime}` prints them
Digits(n) ==
  LET digit == <<"0", "1", "2", "3", "4", "5", "6", "7", "8", "9">>[(n % 10) + 1]
  IN IF n < 10 THEN <<digit>> ELSE Append(Digits(n \div 10), digit)

\* `${userId}_${eventTime}`; strings are sequences of characters
SessionKey(userId, eventTime) == userId \o <<"_">> \o Digits(eventTime)

\* sessionId.startsWith(userId)
StartsWith(str, prefix) ==
  Len(prefix) <= Len(str) /\ SubSeq(str, 1, Len(prefix)) = prefix

\* a plausible slip: the timeout test made inclusive
WithinTimeoutInclusive(eventTime, lastEventTime) ==
  eventTime - lastEventTime <= SESSION_TIMEOUT_MS

\* eventTime - lastEventTime < SESSION_TIMEOUT_MS
WithinTimeout(eventTime, lastEventTime) ==
  eventTime - lastEventTime < SESSION_TIMEOUT_MS

\* the sessions whose id starts with the user id and whose last event is
\* less than the timeout back; sessions is the object in insertion order
MatchingSessions(sessions, event) ==
  {k \in 1..Len(sessions) :
     /\ StartsWith(sessions[k].sessionId, event.distinct_id)
     /\ WithinTimeout(EventTime(event),
                      EventTime(sessions[k].events[Len(sessions[k].events)]))}

\* the body of `for (const event of sortedEvents)`
GroupEvent(sessions, event) ==
  LET matching == MatchingSessions(sessions, event)
      sessionId == SessionKey(event.distinct_id, EventTime(event))
  IN IF matching # {}
       THEN LET k == CHOOSE k \in matching : \A h \in matching : k <= h
            IN [sessions EXCEPT ![k].events = Append(@, event)]
     ELSE IF \E k \in 1..Len(sessions) : sessions[k].sessionId = sessionId
       THEN [k \in 1..Len(sessions) |->
               IF sessions[k].sessionId = sessionId
                 THEN [sessionId |-> sessionId, events |-> <<event>>]
               ELSE sessions[k]]
     ELSE Append(sessions, [sessionId |-> sessionId, events |-> <<event>>])

RECURSIVE GroupLoop(_, _)
\* the loop over the first k of the sorted events
GroupLoop(sortedEvents, k) ==
  IF k = 0 THEN <<>>
  ELSE GroupEvent(GroupLoop(sortedEvents, k - 1), sortedEvents[k])

\* the object groupEventsBySession returns, as its entries in insertion order
groupEventsBySession(events) ==
  IF Len(events) = 0 THEN <<>>
  ELSE GroupLoop(SortByEventTime(events), Len(events))

CallGroupEventsBySession ==
  /\ call # None
  /\ Val(call).fn = "groupEventsBySession"
  /\ result = None
  /\ result' = Some(groupEventsBySession(Val(call).events))
  /\ UNCHANGED <<call, pipeline, sched>>

\* ------------------------------------------------------------------------
\* Inputs: events of users a, ab and b at the edges of the 30 minutes
\* ------------------------------------------------------------------------
MaxGroupEvents == 3

GroupUsers == {<<"a">>, <<"a", "b">>, <<"b">>}

\* 00:00:00.000, 00:29:59.999, 00:30:00.000 and 00:59:59.999
GroupStamps ==
  {[date |-> "1970-01-01", h |-> 0, mi |-> 0, s |-> 0, ms |-> 0],
   [date |-> "1970-01-01", h |-> 0, mi |-> 29, s |-> 59, ms |-> 999],
   [date |-> "1970-01-01", h |-> 0, mi |-> 30, s |-> 0, ms |-> 0],
   [date |-> "1970-01-01", h |-> 0, mi |-> 59, s |-> 59, ms |-> 999]}

GroupSteps == [user : GroupUsers, ts : GroupStamps]

InitGroup ==
  /\ PipelineIdle
  /\ SchedIdle
  /\ result = None
  /\ \E steps \in SeqsUpTo(GroupSteps, MaxGroupEvents) :
       call = Some([fn |-> "groupEventsBySession",
                    events |-> [k \in 1..Len(steps) |->
                                  [id |-> EventIds[k],
                                   event |-> "$pageview",
                                   distinct_id |-> steps[k].user,
                                   timestamp |-> steps[k].ts]]])

SpecGroup == InitGroup /\ [][CallGroupEventsBySession]_vars

\* ------------------------------------------------------------------------
\* Properties: the sessions of groupEventsBySession
\* ------------------------------------------------------------------------
Grouped == Val(result)

\* C33: in the result of groupEventsBySession all events of one session have
\* the same distinct_id, also when one user's id is a prefix of another
\* user's id
C33_OneUserPerSession ==
  (call # None /\ result # None /\ Val(call).fn = "groupEventsBySession") =>
    \A k \in 1..Len(Grouped) :
      \A a, b \in 1..Len(Grouped[k].events) :
        Grouped[k].events[a].distinct_id = Grouped[k].events[b].distinct_id

\* the places (session, position) at which the event with this id is returned
PlacesOf(id) ==
  {<<k, j>> \in (1..Len(Grouped)) \X (1..MaxGroupEvents + 1) :
     j <= Len(Grouped[k].events) /\ Grouped[k].events[j].id = id}

\* C39: groupEventsBySession partitions its input: for every input list whose
\* events have parseable timestamps, each input event appears in exactly one
\* returned session and exactly once, and inside a session the events are in
\* timestamp order with consecutive events less than 30 minutes apart
C39_SessionsPartitionInput ==
  (call # None /\ result # None /\ Val(call).fn = "groupEventsBySession") =>
    /\ \A n \in 1..Len(Val(call).events) :
         Cardinality(PlacesOf(Val(call).events[n].id)) = 1
    /\ \A k \in 1..Len(Grouped) :
         /\ \A j \in 1..Len(Grouped[k].events) :
              \E n \in 1..Len(Val(call).events) :
                Grouped[k].events[j] = Val(call).events[n]
         /\ \A j \in 1..(Len(Grouped[k].events) - 1) :
              LET before == Grouped[k].events[j].timestamp
                  after == Grouped[k].events[j + 1].timestamp
                  minutes(ts) == 60 * ts.h + ts.mi
                  millis(ts) == 1000 * ts.s + ts.ms
              IN /\ \/ minutes(before) < minutes(after)
                    \/ minutes(before) = minutes(after) /\ millis(before) <= millis(after)
                 /\ \/ minutes(after) - minutes(before) < 30
                    \/ /\ minutes(after) - minutes(before) = 30
                       /\ millis(after) < millis(before)

\* events given latest first, 00:29:59.999 apart and 00:30:00.000 apart: one
\* session of two events and one of the third
C39_Witness ==
  /\ call # None
  /\ result # None
  /\ Val(call).fn = "groupEventsBySession"
  /\ Len(Val(call).events) = 3
  /\ Val(call).events[1].timestamp.mi = 59
  /\ Val(call).events[2].timestamp.mi = 29
  /\ Val(call).events[3].timestamp.mi = 0
  /\ Len(Grouped) = 2
  /\ Len(Grouped[1].events) = 2
  /\ Grouped[1].events[1].id = "e3"
  /\ Grouped[1].events[2].id = "e2"
  /\ Grouped[2].events[1].id = "e1"

\* ------------------------------------------------------------------------
\* index.ts: main, the interval and checkForIssues
\* ------------------------------------------------------------------------
\* the number of interval ticks followed
MaxTicks == 2

\* a checkForIssues run at its first await, `await fetchPostHogEvents()`
NewCheck == [at |-> "fetch", failed |-> FALSE]

Running(c) == c.at # "done"

\* a plausible slip: the catch of checkForIssues throws the error again
SettlesRethrowing(c) == IF c.failed THEN "rejected" ELSE "resolved"

\* how the promise of a finished checkForIssues settles: its catch logs the
\* error and returns
Settles(c) == "resolved"

\* main: `await checkForIssues()` is reached
MainStarts ==
  /\ mainPc = "start"
  /\ mainPc' = "awaitFirst"
  /\ checks' = <<NewCheck>>
  /\ UNCHANGED <<ticks, call, result, pipeline>>

\* main resumes when the first check has settled: setInterval, or the catch
\* of main with process.exit(1)
MainResumes ==
  /\ mainPc = "awaitFirst"
  /\ ~Running(checks[1])
  /\ mainPc' = IF Settles(checks[1]) = "resolved" THEN "scheduled" ELSE "exited"
  /\ UNCHANGED <<checks, ticks, call, result, pipeline>>

\* the interval fires: setInterval calls checkForIssues, whatever the earlier
\* calls are doing
Tick ==
  /\ mainPc = "scheduled"
  /\ ticks < MaxTicks
  /\ ticks' = ticks + 1
  /\ checks' = Append(checks, NewCheck)
  /\ UNCHANGED <<mainPc, call, result, pipeline>>

\* the process is alive and check c is at the await named `at`
Awaiting(c, at) ==
  /\ mainPc \in {"awaitFirst", "scheduled"}
  /\ c \in 1..Len(checks)
  /\ checks[c].at = at

MoveTo(c, at, failed) ==
  /\ checks' = [checks EXCEPT ![c] = [at |-> at, failed |-> @.failed \/ failed]]
  /\ UNCHANGED <<mainPc, ticks, call, result, pipeline>>

\* checkForIssues: fetchPostHogEvents settles. It throws (caught by the catch
\* of checkForIssues), returns no events, or returns events: then without a
\* data file, or with no session that has moments, the standard analysis is
\* awaited; loadRRwebData or syncWithPostHogEvents throwing leads to the
\* catch of processWithRRwebData; otherwise the screenshots are captured
FetchSettles ==
  \E c \in 1..Len(checks) :
    /\ Awaiting(c, "fetch")
    /\ \E outcome \in {"throws", "noEvents", "noFile", "noSessions", "syncThrows",
                       "moments"} :
         CASE outcome = "throws" -> MoveTo(c, "done", TRUE)
           [] outcome = "noEvents" -> MoveTo(c, "done", FALSE)
           [] outcome = "noFile" -> MoveTo(c, "standard", FALSE)
           [] outcome = "noSessions" -> MoveTo(c, "standardInTry", FALSE)
           [] outcome = "syncThrows" -> MoveTo(c, "standard", TRUE)
           [] outcome = "moments" -> MoveTo(c, "screenshots", FALSE)

\* processWithRRwebData: captureScreenshotsFromRRwebSessions settles; an
\* error is caught on the spot and the analysis follows either way
CaptureSettles ==
  \E c \in 1..Len(checks) :
    /\ Awaiting(c, "screenshots")
    /\ \E throws \in BOOLEAN : MoveTo(c, "analysis", throws)

\* processWithRRwebData: analyzeEventsAndDraftTickets settles; an error leads
\* to the catch, which awaits the standard analysis
AnalysisSettles ==
  \E c \in 1..Len(checks) :
    /\ Awaiting(c, "analysis")
    /\ \E throws \in BOOLEAN :
         IF throws THEN MoveTo(c, "standard", TRUE) ELSE MoveTo(c, "done", FALSE)

\* processWithoutRRwebData awaited inside the try of processWithRRwebData
\* settles; an error leads to the catch, which awaits it again
StandardInTrySettles ==
  \E c \in 1..Len(checks) :
    /\ Awaiting(c, "standardInTry")
    /\ \E throws \in BOOLEAN :
         IF throws THEN MoveTo(c, "standard", TRUE) ELSE MoveTo(c, "done", FALSE)

\* processWithoutRRwebData awaited by checkForIssues or by the catch of
\* processWithRRwebData settles; an error reaches the catch of checkForIssues
StandardSettles ==
  \E c \in 1..Len(checks) :
    /\ Awaiting(c, "standard")
    /\ \E throws \in BOOLEAN : MoveTo(c, "done", throws)

NextMain ==
  \/ MainStarts
  \/ MainResumes
  \/ Tick
  \/ FetchSettles
  \/ CaptureSettles
  \/ AnalysisSettles
  \/ StandardInTrySettles
  \/ StandardSettles

InitMain ==
  /\ PipelineIdle
  /\ call = None
  /\ result = None
  /\ mainPc = "start"
  /\ checks = <<>>
  /\ ticks = 0

SpecMain == InitMain /\ [][NextMain]_vars

\* ------------------------------------------------------------------------
\* Properties: the schedule
\* ------------------------------------------------------------------------
\* C34: a failure inside a check never terminates the program or the
\* schedule: the program never exits, once the first check has finished,
\* successfully or not, the step main takes installs the interval, and every
\* tick starts a new check
C34_FailureNeverStopsSchedule ==
  /\ [](mainPc # "exited")
  /\ [][(mainPc = "awaitFirst" /\ mainPc' # mainPc) => mainPc' = "scheduled"]_vars
  /\ [][ticks' # ticks =>
          /\ Len(checks') = Len(checks) + 1
          /\ checks'[Len(checks')] = NewCheck]_vars

\* the first check failed, the interval was installed all the same, the check
\* of the first tick failed too and the second tick started another
C34_Witness ==
  /\ mainPc = "scheduled"
  /\ Len(checks) = 3
  /\ checks[1].failed
  /\ checks[2].failed
  /\ ~Running(checks[2])
  /\ ticks = 2

\* C40: at most one checkForIssues run is in progress at any time: a tick
\* never starts a new check while an earlier one is still awaiting its fetch,
\* its screenshot capture or its analysis
C40_OneCheckAtATime ==
  Cardinality({c \in 1..Len(checks) : Running(checks[c])}) <= 1

\* ------------------------------------------------------------------------
\* findInterestingTimestamps
\* ------------------------------------------------------------------------
\* keyEventTypes.includes(event.type), and for an IncrementalSnapshot event
\* the test of isInteresting
IsInteresting(event) ==
  \/ event.type \in {"DomContentLoaded", "Load", "Navigate"}
  \/ /\ event.type = "IncrementalSnapshot"
     /\ event.details # None
     /\ \/ /\ D(event).incrementalType = Some("MouseInteraction")
           /\ D(event).interactionType
                \in {Some("Click"), Some("MouseDown"), Some("Focus"), Some("Blur")}
        \/ D(event).incrementalType = Some("Input")
        \/ D(event).incrementalType = Some("Scroll")

\* place the number t behind every number <= t
InsertNumber(sorted, t) ==
  LET k == Cardinality({j \in 1..Len(sorted) : sorted[j] <= t})
  IN SubSeq(sorted, 1, k) \o <<t>> \o SubSeq(sorted, k + 1, Len(sorted))

RECURSIVE SortNumbers(_)
\* candidateTimestamps.sort((a, b) => a - b)
SortNumbers(numbers) ==
  IF numbers = <<>> THEN <<>>
  ELSE InsertNumber(SortNumbers(SubSeq(numbers, 1, Len(numbers) - 1)),
                    numbers[Len(numbers)])

\* the session start, the timestamps of the interesting events and the
\* session end, sorted
CandidateTimestamps(session) ==
  LET interesting == SelectSeq(session.events, IsInteresting)
  IN SortNumbers(<<session.metadata.startTime>>
                 \o [k \in 1..Len(interesting) |-> interesting[k].timestamp]
                 \o <<session.metadata.endTime>>)

\* Math.min(Math.floor(1 + i * step), length - 2) with
\* step = (length - 2) / (maxPoints - 2), as a 0-based index; used for
\* maxPoints > 2 only, where the loop runs
SelectedIndex(k, length, maxPoints) ==
  Min(1 + ((k * (length - 2)) \div (maxPoints - 2)), length - 2)

\* the value findInterestingTimestamps(session, maxPoints) returns
findInterestingTimestamps(session, maxPoints) ==
  LET candidateTimestamps == CandidateTimestamps(session)
      length == Len(candidateTimestamps)
  IN IF length <= maxPoints THEN candidateTimestamps
     ELSE <<candidateTimestamps[1]>>
          \o [k \in 1..(maxPoints - 2) |->
                candidateTimestamps[SelectedIndex(k, length, maxPoints) + 1]]
          \o <<candidateTimestamps[length]>>

CallFindInterestingTimestamps ==
  /\ call # None
  /\ Val(call).fn = "findInterestingTimestamps"
  /\ result = None
  /\ result' = Some(findInterestingTimestamps(Val(call).session, Val(call).maxPoints))
  /\ UNCHANGED <<call, pipeline, sched>>

\* ------------------------------------------------------------------------
\* Inputs: sessions of up to four events, 1 to 5 points asked for
\* ------------------------------------------------------------------------
MaxInterestingEvents == 4

MaxPointsAsked == 5

InterestingKinds == {"scroll5", "navA", "move"}

InterestingEvent(kind, ts) ==
  IF kind = "move" THEN MouseMoveEvent(ts, None) ELSE ViewportEvent(kind, ts)

InitInteresting ==
  /\ PipelineIdle
  /\ SchedIdle
  /\ result = None
  /\ \E kinds \in SeqsUpTo(InterestingKinds, MaxInterestingEvents),
        maxPoints \in 1..MaxPointsAsked :
       call = Some([fn |-> "findInterestingTimestamps",
                    session |->
                      ProcessedSession("s1",
                        [k \in 1..Len(kinds) |->
                           InterestingEvent(kinds[k], Stamped(0, k))]),
                    maxPoints |-> maxPoints])

SpecInteresting == InitInteresting /\ [][CallFindInterestingTimestamps]_vars

\* ------------------------------------------------------------------------
\* Properties: the timestamps chosen for screenshots
\* ------------------------------------------------------------------------
\* the candidate timestamps of the session of the call: its start, its end
\* and the timestamps of its interesting events
CandidateSet ==
  LET session == Val(call).session
  IN {session.metadata.startTime, session.metadata.endTime}
       \cup {session.events[k].timestamp :
               k \in {j \in 1..Len(session.events) : IsInteresting(session.events[j])}}

\* C35: findInterestingTimestamps returns at most maxPoints timestamps for
\* every maxPoints >= 1, in non-decreasing order, and when it has to select
\* it keeps the earliest and the latest candidate timestamp
C35_AtMostMaxPointsInOrder ==
  (call # None /\ result # None /\ Val(call).fn = "findInterestingTimestamps") =>
    LET chosen == Val(result)
    IN /\ Len(chosen) <= Val(call).maxPoints
       /\ \A k \in 1..(Len(chosen) - 1) : chosen[k] <= chosen[k + 1]
       /\ Len(SelectSeq(Val(call).session.events, IsInteresting)) + 2
            > Val(call).maxPoints =>
            /\ Len(chosen) > 0
            /\ \A t \in CandidateSet : chosen[1] <= t /\ t <= chosen[Len(chosen)]

\* ------------------------------------------------------------------------
\* Properties: the size of a RapidScrolling moment
\* ------------------------------------------------------------------------
\* the events of the session are in timestamp order
InTimestampOrder(events) ==
  \A j \in 1..(Len(events) - 1) : events[j].timestamp <= events[j + 1].timestamp

\* C37: in a session sorted by timestamp every RapidScrolling moment has
\* scrollCount exactly 8 and a duration strictly below 5000 ms: the count
\* of retained scrolls inside the window grows by at most one per Scroll
\* event and the queue is cut to 2 as soon as the count reaches 8
C37_RapidScrollingCountsEight ==
  \A n \in MomentsOf("RapidScrolling") :
    InTimestampOrder(rrwebData[origin[n].s].events) =>
      /\ keyMoments[n].scrollCount = 8
      /\ keyMoments[n].duration < 5000

\* a sorted session of more than 8 Scroll events got two RapidScrolling
\* moments, and one of them came when older Scroll events had already left
\* the window
C37_Witness ==
  /\ pc = "done"
  /\ Len(rrwebData) = 1
  /\ InTimestampOrder(rrwebData[1].events)
  /\ Cardinality(RapidScrollingAt(1)) = 2
  /\ \E j \in RapidScrollingAt(1) :
       \E h \in ScrollsIn(rrwebData[1].events, 1, j) :
         /\ h \in RetainedQueue(1, j)
         /\ rrwebData[1].events[h].timestamp <= rrwebData[1].events[j].timestamp - 5000

\* ------------------------------------------------------------------------
\* Inputs: three quick clicks on one spot, PostHog events around them
\* ------------------------------------------------------------------------
\* the clicks are 100 ms apart: each is a dead click and the third is a
\* rage click, so the session has several moments at different times
InitJoinMany ==
  \E ts \in JoinMomentTimes :
    \E p \in PostHogLists(JoinStamps, MaxPosthogEvents) :
      Start(File(<<Session(Some("s1"),
                           [k \in 1..3 |->
                              MouseRecord(ts + 100 * (k - 1),
                                          MouseInteractionType_Click, Div,
                                          Some(10), Some(10))])>>),
            p)

SpecJoinMany == InitJoinMany /\ [][Next]_vars

\* ------------------------------------------------------------------------
\* Properties: what the join adds
\* ------------------------------------------------------------------------
\* the record wide has every field of the record narrow, with the same value
Extends(wide, narrow) ==
  /\ DOMAIN narrow \subseteq DOMAIN wide
  /\ \A f \in DOMAIN narrow : wide[f] = narrow[f]

\* C38: syncWithPostHogEvents returns exactly one correlated moment per
\* moment of extractKeyMoments, in the same order and with every original
\* field unchanged; the only change is the added nearbyPosthogEvents list,
\* and the returned posthogEvents list has the length and the order of the
\* input list
C38_JoinOnlyAddsNearbyEvents ==
  pc = "done" =>
    /\ Len(Synced) = Len(keyMoments)
    /\ \A k \in 1..Len(keyMoments) :
         /\ Extends(Synced[k], keyMoments[k])
         /\ DOMAIN Synced[k] = DOMAIN keyMoments[k] \cup {"nearbyPosthogEvents"}
    /\ Len(Normalized) = Len(posthogEvents)
    /\ \A k \in 1..Len(posthogEvents) : Extends(Normalized[k], posthogEvents[k])

\* the join has run on several moments of different kinds and times and on
\* several PostHog events; one moment has events nearby and another none
C38_Witness ==
  /\ pc = "done"
  /\ Len(posthogEvents) >= 2
  /\ \E a, b \in 1..Len(keyMoments) :
       /\ a < b
       /\ keyMoments[a].type # keyMoments[b].type
       /\ keyMoments[a].timestamp # keyMoments[b].timestamp
       /\ Synced[a].nearbyPosthogEvents # <<>>
       /\ Synced[b].nearbyPosthogEvents = <<>>

\* ------------------------------------------------------------------------
\* Inputs: raw records of every shape the detectors could respond to
\* ------------------------------------------------------------------------
IncrementalSnapshotType_CanvasMutation == 9

MaxPipelineRun == 10

\* a raw record of the kind: a click on a DIV, a click on a submit button,
\* an input into a field of form f1, a Scroll 50 px to the right, a
\* MouseMove at (50, 50), a CanvasMutation that carries an error, and a
\* Custom and a Meta record that carry the href of the page navigated to
PipelineRecord(kind, ts) ==
  CASE kind = "click" ->
         MouseRecord(ts, MouseInteractionType_Click, Div, Some(10), Some(10))
    [] kind = "submit" ->
         MouseRecord(ts, MouseInteractionType_Click, SubmitButton, Some(10), Some(10))
    [] kind = "input" ->
         InputRecord(ts, Target(Some("INPUT"), None, FormAttrs("f1")), Some("a"))
    [] kind = "scrollSideways" ->
         [type |-> RRwebEventType_IncrementalSnapshot,
          timestamp |-> ts,
          data |-> Some([NoData EXCEPT
                           !.source = Some(IncrementalSnapshotType_Scroll),
                           !.x = Some(50),
                           !.y = Some(0)])]
    [] kind = "move" -> MoveRecord(ts)
    [] kind = "canvasError" ->
         [type |-> RRwebEventType_IncrementalSnapshot,
          timestamp |-> ts,
          data |-> Some([NoData EXCEPT
                           !.source = Some(IncrementalSnapshotType_CanvasMutation),
                           !.error = Some("TypeError")])]
    [] kind = "customNavigate" ->
         [type |-> RRwebEventType_Custom,
          timestamp |-> ts,
          data |-> Some([NoData EXCEPT !.href = Some("/a")])]
    [] kind = "metaNavigate" ->
         [type |-> RRwebEventType_Meta,
          timestamp |-> ts,
          data |-> Some([NoData EXCEPT !.href = Some("/a")])]

\* a Meta record of a phone-sized page
NarrowMetaRecord ==
  [type |-> RRwebEventType_Meta,
   timestamp |-> 0,
   data |-> Some([NoData EXCEPT !.href = Some("/a"),
                                !.width = Some(375),
                                !.height = Some(667)])]

\* the kinds of raw record, in the order in which they are run
PipelineKinds ==
  <<"click", "submit", "input", "scrollSideways", "move", "canvasError",
    "customNavigate", "metaNavigate">>

\* the long pause of a record list
PipelinePauses == {10001, 11000}

\* the time of the k-th record of a list: 8 records 100 ms apart, the 9th
\* 4000 ms later, and every further one after a long pause
PipelineTime(k, pause) ==
  IF k <= 8 THEN 100 * k
  ELSE IF k = 9 THEN 4800
  ELSE 4800 + pause * (k - 9)

\* a Meta record of a narrow page and 10 records of one kind behind it
PipelineRecords(kind, pause) ==
  <<NarrowMetaRecord>>
    \o [k \in 1..MaxPipelineRun |-> PipelineRecord(kind, PipelineTime(k, pause))]

PipelineFile(kind, pause) == File(<<Session(Some("s1"), PipelineRecords(kind, pause))>>)

\* the kinds of the moments pushed so far
KindsOf(moments) == {moments[n].type : n \in 1..Len(moments)}

\* the pipeline is run on the record list of each kind in turn: call holds
\* the number of the list being run and result the kinds of moment that the
\* lists before it yielded
InitPipeline ==
  \E pause \in PipelinePauses :
    /\ SchedIdle
    /\ call = Some([fn |-> "pipeline", at |-> 1, pause |-> pause])
    /\ result = Some({})
    /\ file = PipelineFile(PipelineKinds[1], pause)
    /\ posthogEvents = <<>>
    /\ rrwebData = <<>>
    /\ keyMoments = <<>>
    /\ origin = <<>>
    /\ track = IdleTrack
    /\ si = 1
    /\ i = 0
    /\ pc = "load"
    /\ syncResult = None
    /\ run = 1
    /\ firstResult = None

\* the run on one list is over: the next list is loaded
NextRecordList ==
  /\ pc = "done"
  /\ call # None
  /\ Val(call).fn = "pipeline"
  /\ Val(call).at < Len(PipelineKinds)
  /\ call' = Some([Val(call) EXCEPT !.at = @ + 1])
  /\ result' = Some(Val(result) \cup KindsOf(keyMoments))
  /\ file' = PipelineFile(PipelineKinds[Val(call).at + 1], Val(call).pause)
  /\ rrwebData' = <<>>
  /\ keyMoments' = <<>>
  /\ origin' = <<>>
  /\ track' = IdleTrack
  /\ si' = 1
  /\ i' = 0
  /\ pc' = "load"
  /\ syncResult' = None
  /\ UNCHANGED <<posthogEvents, run, firstResult, sched>>

NextPipeline == Next \/ NextRecordList

SpecPipeline == InitPipeline /\ [][NextPipeline]_vars

\* ------------------------------------------------------------------------
\* Properties: the pattern kinds the pipeline can emit
\* ------------------------------------------------------------------------
\* the kinds of the detector table
PatternKinds ==
  {"RageClick", "DeadClick", "Hesitation", "FormAbandonment", "NavigationLoop",
   "RapidScrolling", "MouseHovering", "MultipleSubmissions",
   "HorizontalScrollMobile", "JSError"}

\* the run on the last record list is over
AllListsRun ==
  /\ call # None
  /\ Val(call).fn = "pipeline"
  /\ Val(call).at = Len(PipelineKinds)
  /\ pc = "done"

\* the kinds of moment that the record lists yielded
EmittedKinds == Val(result) \cup KindsOf(keyMoments)

\* C36: every pattern kind of the detector table is reachable through the
\* full pipeline: for each kind there is a raw record list for which
\* loadRRwebData followed by extractKeyMoments emits a moment of that kind
C36_EveryKindReachable ==
  AllListsRun => \A kind \in PatternKinds : kind \in EmittedKinds

====
